---- MODULE Spec2Model ----
(***************************************************************************)
(* Source structure index of the code-search extension: the CodeIndexer    *)
(* class (src/src/codeIndexer.ts) with its two maps, FileIndex and         *)
(* NodeIndex, the materialisation of a syntax tree into CodeNode records,  *)
(* the incremental update of a file and the queries over the index.        *)
(*                                                                         *)
(* Strings that the code inspects character by character (source text,     *)
(* node text, names, queries) are sequences of one-character strings, so   *)
(* that toLowerCase, trim, split and includes are computed, not assumed.   *)
(***************************************************************************)
EXTENDS Integers, Sequences, FiniteSets, TLC

VARIABLES
  disk,        \* the file system: what readdirSync/statSync/readFileSync see
  parsers,     \* CodeIndexer.parsers: Null, or <<set of extensions>>
  fileIndex,   \* CodeIndexer.fileIndex: file path -> root CodeNode
  nodeIndex,   \* CodeIndexer.nodeIndex: insertion-ordered map id -> CodeNode
  run,         \* the bulk run of initialize: its position between awaits
  ret          \* outcome of the last call made on the indexer

vars == <<disk, parsers, fileIndex, nodeIndex, run, ret>>

----------------------------------------------------------------------------
(* Optional values: null/undefined is the empty tuple, a value v is <<v>>. *)
Null == <<>>
Some(v) == <<v>>

----------------------------------------------------------------------------
(* JavaScript string primitives.                                           *)

LowerChar(c) ==
  CASE c = "A" -> "a" [] c = "B" -> "b" [] c = "C" -> "c" [] c = "D" -> "d"
    [] c = "E" -> "e" [] c = "F" -> "f" [] c = "G" -> "g" [] c = "H" -> "h"
    [] c = "I" -> "i" [] c = "J" -> "j" [] c = "K" -> "k" [] c = "L" -> "l"
    [] c = "M" -> "m" [] c = "N" -> "n" [] c = "O" -> "o" [] c = "P" -> "p"
    [] c = "Q" -> "q" [] c = "R" -> "r" [] c = "S" -> "s" [] c = "T" -> "t"
    [] c = "U" -> "u" [] c = "V" -> "v" [] c = "W" -> "w" [] c = "X" -> "x"
    [] c = "Y" -> "y" [] c = "Z" -> "z" [] OTHER -> c

toLowerCase(s) == [i \in 1..Len(s) |-> LowerChar(s[i])]

IsSpace(c) == c \in {" ", "\n", "\t"}

RECURSIVE trimStart(_)
trimStart(s) ==
  IF s # <<>> /\ IsSpace(s[1]) THEN trimStart(Tail(s)) ELSE s

RECURSIVE trimEnd(_)
trimEnd(s) ==
  IF s # <<>> /\ IsSpace(s[Len(s)]) THEN trimEnd(SubSeq(s, 1, Len(s) - 1)) ELSE s

trim(s) == trimEnd(trimStart(s))

\* haystack.includes(needle)
includes(s, t) ==
  \E i \in 0..(Len(s) - Len(t)) : SubSeq(s, i + 1, i + Len(t)) = t

\* s.split(/\s+/): the pieces between maximal runs of white space; a run at
\* either end leaves an empty piece there, and "" splits into [""].
RECURSIVE splitFrom(_, _)
splitFrom(s, cur) ==
  IF s = <<>> THEN <<cur>>
  ELSE IF IsSpace(s[1]) THEN <<cur>> \o splitFrom(trimStart(s), <<>>)
  ELSE splitFrom(Tail(s), Append(cur, s[1]))

split(s) == splitFrom(s, <<>>)

----------------------------------------------------------------------------
(* The external parser.  parser.parse(fileContent) yields a tree of        *)
(* syntax nodes; each has a type, the field name it carries in its parent, *)
(* byte offsets, row/column positions derived from the offsets, its text   *)
(* (the slice of the source) and ALL its children, anonymous tokens        *)
(* included.  The shapes below are the trees of the typescript/tsx         *)
(* grammar for the source texts the model puts on disk.                    *)

N(type, field, s, e, kids) ==
  [type |-> type, field |-> field, startIndex |-> s, endIndex |-> e, children |-> kids]

\* 'function add(a, b) { return a + b; }'  (22 syntax nodes)
SrcAdd ==
  <<"f", "u", "n", "c", "t", "i", "o", "n", " ", "a", "d", "d", "(", "a", ",", " ", "b", ")", " ", "{", " ", "r", "e", "t", "u", "r", "n", " ", "a", " ", "+", " ", "b", ";", " ", "}">>

ShapeAdd ==
  N("program", "", 0, 36, <<
    N("function_declaration", "", 0, 36, <<
      N("function", "", 0, 8, <<>>),
      N("identifier", "name", 9, 12, <<>>),
      N("formal_parameters", "parameters", 12, 18, <<
        N("(", "", 12, 13, <<>>),
        N("required_parameter", "", 13, 14, <<
          N("identifier", "pattern", 13, 14, <<>>)>>),
        N(",", "", 14, 15, <<>>),
        N("required_parameter", "", 16, 17, <<
          N("identifier", "pattern", 16, 17, <<>>)>>),
        N(")", "", 17, 18, <<>>)>>),
      N("statement_block", "body", 19, 36, <<
        N("{", "", 19, 20, <<>>),
        N("return_statement", "", 21, 34, <<
          N("return", "", 21, 27, <<>>),
          N("binary_expression", "", 28, 33, <<
            N("identifier", "left", 28, 29, <<>>),
            N("+", "operator", 30, 31, <<>>),
            N("identifier", "right", 32, 33, <<>>)>>),
          N(";", "", 33, 34, <<>>)>>),
        N("}", "", 35, 36, <<>>)>>)>>)>>)

\* 'function add() {\n\n}\nfunction Sub() {}'  (19 syntax nodes)
SrcTwo ==
  <<"f", "u", "n", "c", "t", "i", "o", "n", " ", "a", "d", "d", "(", ")", " ", "{", "\n", "\n", "}", "\n", "f", "u", "n", "c", "t", "i", "o", "n", " ", "S", "u", "b", "(", ")", " ", "{", "}">>

ShapeTwo ==
  N("program", "", 0, 37, <<
    N("function_declaration", "", 0, 19, <<
      N("function", "", 0, 8, <<>>),
      N("identifier", "name", 9, 12, <<>>),
      N("formal_parameters", "parameters", 12, 14, <<
        N("(", "", 12, 13, <<>>),
        N(")", "", 13, 14, <<>>)>>),
      N("statement_block", "body", 15, 19, <<
        N("{", "", 15, 16, <<>>),
        N("}", "", 18, 19, <<>>)>>)>>),
    N("function_declaration", "", 20, 37, <<
      N("function", "", 20, 28, <<>>),
      N("identifier", "name", 29, 32, <<>>),
      N("formal_parameters", "parameters", 32, 34, <<
        N("(", "", 32, 33, <<>>),
        N(")", "", 33, 34, <<>>)>>),
      N("statement_block", "body", 35, 37, <<
        N("{", "", 35, 36, <<>>),
        N("}", "", 36, 37, <<>>)>>)>>)>>)

\* '// sum\nfunction add(a, b) { return a + b; }'  (23 syntax nodes)
SrcDoc ==
  <<"/", "/", " ", "s", "u", "m", "\n", "f", "u", "n", "c", "t", "i", "o", "n", " ", "a", "d", "d", "(", "a", ",", " ", "b", ")", " ", "{", " ", "r", "e", "t", "u", "r", "n", " ", "a", " ", "+", " ", "b", ";", " ", "}">>

ShapeDoc ==
  N("program", "", 0, 43, <<
    N("comment", "", 0, 6, <<>>),
    N("function_declaration", "", 7, 43, <<
      N("function", "", 7, 15, <<>>),
      N("identifier", "name", 16, 19, <<>>),
      N("formal_parameters", "parameters", 19, 25, <<
        N("(", "", 19, 20, <<>>),
        N("required_parameter", "", 20, 21, <<
          N("identifier", "pattern", 20, 21, <<>>)>>),
        N(",", "", 21, 22, <<>>),
        N("required_parameter", "", 23, 24, <<
          N("identifier", "pattern", 23, 24, <<>>)>>),
        N(")", "", 24, 25, <<>>)>>),
      N("statement_block", "body", 26, 43, <<
        N("{", "", 26, 27, <<>>),
        N("return_statement", "", 28, 41, <<
          N("return", "", 28, 34, <<>>),
          N("binary_expression", "", 35, 40, <<
            N("identifier", "left", 35, 36, <<>>),
            N("+", "operator", 37, 38, <<>>),
            N("identifier", "right", 39, 40, <<>>)>>),
          N(";", "", 40, 41, <<>>)>>),
        N("}", "", 42, 43, <<>>)>>)>>)>>)

\* 'interface Pt { x: number }'  (13 syntax nodes)
SrcIface ==
  <<"i", "n", "t", "e", "r", "f", "a", "c", "e", " ", "P", "t", " ", "{", " ", "x", ":", " ", "n", "u", "m", "b", "e", "r", " ", "}">>

ShapeIface ==
  N("program", "", 0, 26, <<
    N("interface_declaration", "", 0, 26, <<
      N("interface", "", 0, 9, <<>>),
      N("type_identifier", "name", 10, 12, <<>>),
      N("interface_body", "body", 13, 26, <<
        N("{", "", 13, 14, <<>>),
        N("property_signature", "", 15, 24, <<
          N("property_identifier", "name", 15, 16, <<>>),
          N("type_annotation", "type", 16, 24, <<
            N(":", "", 16, 17, <<>>),
            N("predefined_type", "", 18, 24, <<
              N("number", "", 18, 24, <<>>)>>)>>)>>),
        N("}", "", 25, 26, <<>>)>>)>>)>>)

\* node.type as the characters String.includes inspects
TypeChars(t) ==
  CASE t = "(" -> <<"(">>
    [] t = ")" -> <<")">>
    [] t = "+" -> <<"+">>
    [] t = "," -> <<",">>
    [] t = ":" -> <<":">>
    [] t = ";" -> <<";">>
    [] t = "binary_expression" -> <<"b", "i", "n", "a", "r", "y", "_", "e", "x", "p", "r", "e", "s", "s", "i", "o", "n">>
    [] t = "comment" -> <<"c", "o", "m", "m", "e", "n", "t">>
    [] t = "formal_parameters" -> <<"f", "o", "r", "m", "a", "l", "_", "p", "a", "r", "a", "m", "e", "t", "e", "r", "s">>
    [] t = "function" -> <<"f", "u", "n", "c", "t", "i", "o", "n">>
    [] t = "function_declaration" -> <<"f", "u", "n", "c", "t", "i", "o", "n", "_", "d", "e", "c", "l", "a", "r", "a", "t", "i", "o", "n">>
    [] t = "identifier" -> <<"i", "d", "e", "n", "t", "i", "f", "i", "e", "r">>
    [] t = "interface" -> <<"i", "n", "t", "e", "r", "f", "a", "c", "e">>
    [] t = "interface_body" -> <<"i", "n", "t", "e", "r", "f", "a", "c", "e", "_", "b", "o", "d", "y">>
    [] t = "interface_declaration" -> <<"i", "n", "t", "e", "r", "f", "a", "c", "e", "_", "d", "e", "c", "l", "a", "r", "a", "t", "i", "o", "n">>
    [] t = "number" -> <<"n", "u", "m", "b", "e", "r">>
    [] t = "predefined_type" -> <<"p", "r", "e", "d", "e", "f", "i", "n", "e", "d", "_", "t", "y", "p", "e">>
    [] t = "program" -> <<"p", "r", "o", "g", "r", "a", "m">>
    [] t = "property_identifier" -> <<"p", "r", "o", "p", "e", "r", "t", "y", "_", "i", "d", "e", "n", "t", "i", "f", "i", "e", "r">>
    [] t = "property_signature" -> <<"p", "r", "o", "p", "e", "r", "t", "y", "_", "s", "i", "g", "n", "a", "t", "u", "r", "e">>
    [] t = "required_parameter" -> <<"r", "e", "q", "u", "i", "r", "e", "d", "_", "p", "a", "r", "a", "m", "e", "t", "e", "r">>
    [] t = "return" -> <<"r", "e", "t", "u", "r", "n">>
    [] t = "return_statement" -> <<"r", "e", "t", "u", "r", "n", "_", "s", "t", "a", "t", "e", "m", "e", "n", "t">>
    [] t = "statement_block" -> <<"s", "t", "a", "t", "e", "m", "e", "n", "t", "_", "b", "l", "o", "c", "k">>
    [] t = "type_annotation" -> <<"t", "y", "p", "e", "_", "a", "n", "n", "o", "t", "a", "t", "i", "o", "n">>
    [] t = "type_identifier" -> <<"t", "y", "p", "e", "_", "i", "d", "e", "n", "t", "i", "f", "i", "e", "r">>
    [] t = "class_declaration" -> <<"c", "l", "a", "s", "s", "_", "d", "e", "c", "l", "a", "r", "a", "t", "i", "o", "n">>
    [] t = "lexical_declaration" -> <<"l", "e", "x", "i", "c", "a", "l", "_", "d", "e", "c", "l", "a", "r", "a", "t", "i", "o", "n">>
    [] t = "method_definition" -> <<"m", "e", "t", "h", "o", "d", "_", "d", "e", "f", "i", "n", "i", "t", "i", "o", "n">>
    [] t = "{" -> <<"{">>
    [] t = "}" -> <<"}">>

----------------------------------------------------------------------------
(* Bounds and the small world the indexer runs in.                         *)

NumContents == 2        \* how many of the source texts may be written to disk
NumSearchContents == 3  \* the same, in the workspace the search runs in

ContentList == <<SrcAdd, SrcTwo, SrcDoc, SrcIface>>

Contents == 1..NumContents

Files == {"a.ts", "b.tsx"}

\* readdirSync order of the workspace folder
FileOrder == <<"a.ts", "b.tsx">>

\* path.extname(filePath).toLowerCase().slice(1)
extname(f) == CASE f = "a.ts" -> "ts" [] f = "b.tsx" -> "tsx"

\* what a path can be on disk: not there, there but unreadable, or a text
DiskStates ==
  {[kind |-> "missing"], [kind |-> "denied"]}
    \cup {[kind |-> "text", content |-> k] : k \in Contents}

\* The tree the grammar yields for a source text.
ParseShape(src) ==
  CASE src = SrcAdd -> ShapeAdd
    [] src = SrcTwo -> ShapeTwo
    [] src = SrcDoc -> ShapeDoc
    [] src = SrcIface -> ShapeIface

\* row and column of a byte offset of the text
PositionAt(src, off) ==
  LET before == {i \in 1..off : src[i] = "\n"}
      lineStart == IF before = {} THEN 0
                   ELSE CHOOSE i \in before : \A j \in before : j <= i
  IN [row |-> Cardinality(before), column |-> off - lineStart]

RECURSIVE SyntaxNode(_, _)
SyntaxNode(src, shape) ==
  [type |-> shape.type,
   field |-> shape.field,
   text |-> SubSeq(src, shape.startIndex + 1, shape.endIndex),
   startPosition |-> PositionAt(src, shape.startIndex),
   endPosition |-> PositionAt(src, shape.endIndex),
   children |-> [i \in 1..Len(shape.children) |-> SyntaxNode(src, shape.children[i])]]

\* parser.parse(fileContent).rootNode
parse(fileContent) == SyntaxNode(fileContent, ParseShape(fileContent))

\* node.childForFieldName(name): the first child carrying that field, or null
childForFieldName(node, name) ==
  LET hits == {i \in 1..Len(node.children) : node.children[i].field = name}
  IN IF hits = {} THEN Null
     ELSE Some(node.children[CHOOSE i \in hits : \A j \in hits : i <= j])

----------------------------------------------------------------------------
(* CodeIndexer.convertToCodeNode                                           *)

NamedTypes ==
  {"function_declaration", "method_definition", "class_declaration",
   "variable_declaration", "interface_declaration", "type_alias",
   "property_signature"}

\* an id that leaves the path of the file out
NodeId_WithoutPath(filePath, row, column) == <<"", row, column>>

\* `${filePath}:${row}:${column}`.  Row and column are decimal numbers, so
\* the string determines the triple and the triple stands for the string.
NodeId(filePath, row, column) == <<filePath, row, column>>

\* a name read from the "name" field alone
extractName_NameFieldOnly(node) ==
  LET nameNode == childForFieldName(node, "name")
  IN IF nameNode # Null THEN Some(nameNode[1].text) ELSE Null

\* the name of a node of one of the NamedTypes: its "name" field, else its
\* first child that is a property_identifier or a type_identifier
extractName(node) ==
  LET nameNode == childForFieldName(node, "name")
      idents == {i \in 1..Len(node.children) :
                   node.children[i].type \in {"property_identifier", "type_identifier"}}
  IN IF nameNode # Null THEN Some(nameNode[1].text)
     ELSE IF idents = {} THEN Null
     ELSE Some(node.children[CHOOSE i \in idents : \A j \in idents : i <= j].text)

RECURSIVE convertToCodeNode(_, _)
\* a conversion that keeps the comments
convertToCodeNode_CommentsKept(node, filePath) ==
  [id |-> NodeId(filePath, node.startPosition.row, node.startPosition.column),
   type |-> node.type,
   name |-> IF node.type \in NamedTypes THEN extractName(node) ELSE Null,
   text |-> node.text,
   startLine |-> node.startPosition.row,
   endLine |-> node.endPosition.row,
   startCol |-> node.startPosition.column,
   endCol |-> node.endPosition.column,
   filePath |-> filePath,
   children |-> [i \in 1..Len(node.children) |->
                   convertToCodeNode(node.children[i], filePath)]]

convertToCodeNode(node, filePath) ==
  LET kept == SelectSeq(node.children, LAMBDA c : c.type # "comment")
  IN [id |-> NodeId(filePath, node.startPosition.row, node.startPosition.column),
      type |-> node.type,
      name |-> IF node.type \in NamedTypes THEN extractName(node) ELSE Null,
      text |-> node.text,
      startLine |-> node.startPosition.row,
      endLine |-> node.endPosition.row,
      startCol |-> node.startPosition.column,
      endCol |-> node.endPosition.column,
      filePath |-> filePath,
      children |-> [i \in 1..Len(kept) |-> convertToCodeNode(kept[i], filePath)]]

\* every node of a materialised tree, the root first
RECURSIVE NodesOf(_)
NodesOf(node) ==
  {node} \cup UNION {NodesOf(node.children[i]) : i \in 1..Len(node.children)}

IdsOf(node) == {n.id : n \in NodesOf(node)}

----------------------------------------------------------------------------
(* Map<string, CodeNode>: keys are kept in insertion order; set on a key   *)
(* that exists keeps its place, delete followed by set moves it last.      *)

MapHas(m, k) == \E i \in 1..Len(m) : m[i].key = k

MapGet(m, k) ==
  IF MapHas(m, k) THEN Some(m[CHOOSE i \in 1..Len(m) : m[i].key = k].value) ELSE Null

MapSet(m, k, v) ==
  IF MapHas(m, k)
  THEN LET at == CHOOSE i \in 1..Len(m) : m[i].key = k
       IN SubSeq(m, 1, at - 1) \o <<[key |-> k, value |-> v]>> \o SubSeq(m, at + 1, Len(m))
  ELSE Append(m, [key |-> k, value |-> v])

MapDelete(m, k) == SelectSeq(m, LAMBDA e : e.key # k)

MapKeys(m) == {m[i].key : i \in 1..Len(m)}

\* map.values(), in iteration order
MapValues(m) == [i \in 1..Len(m) |-> m[i].value]

----------------------------------------------------------------------------
(* CodeIndexer.indexNode / removeNodeFromIndex / indexFile / updateFile    *)

\* A JavaScript call computes its argument before it runs: the loops below
\* ask for the map they were handed before they go on.
Evaluated(m) == Len(m) >= 0

RECURSIVE indexNode(_, _)
RECURSIVE indexNodesFrom(_, _, _)
indexNode(ni, node) == indexNodesFrom(MapSet(ni, node.id, node), node.children, 1)
\* the for loop over node.children, from child i on
indexNodesFrom(ni, nodes, i) ==
  IF Evaluated(ni) /\ i > Len(nodes) THEN ni
  ELSE indexNodesFrom(indexNode(ni, nodes[i]), nodes, i + 1)

\* removal that forgets the children of the node
removeNodeFromIndex_RootOnly(ni, node) == MapDelete(ni, node.id)

RECURSIVE removeNodeFromIndex(_, _)
RECURSIVE removeNodesFrom(_, _, _)
removeNodeFromIndex(ni, node) ==
  removeNodesFrom(MapDelete(ni, node.id), node.children, 1)
\* the for loop over node.children, from child i on
removeNodesFrom(ni, nodes, i) ==
  IF Evaluated(ni) /\ i > Len(nodes) THEN ni
  ELSE removeNodesFrom(removeNodeFromIndex(ni, nodes[i]), nodes, i + 1)

\* indexFile as the earlier CodeIndexer has it: no parser for the extension
\* is an error thrown
indexFile_NoParserThrows(filePath, ps, fi, ni) ==
  IF ps = Null
  THEN [threw |-> TRUE, fileIndex |-> fi, nodeIndex |-> ni]
  ELSE IF extname(filePath) \notin ps[1]
  THEN [threw |-> TRUE, fileIndex |-> fi, nodeIndex |-> ni]
  ELSE IF disk[filePath].kind # "text"
  THEN [threw |-> TRUE, fileIndex |-> fi, nodeIndex |-> ni]
  ELSE LET fileContent == ContentList[disk[filePath].content]
           rootNode == convertToCodeNode(parse(fileContent), filePath)
       IN [threw |-> FALSE,
           fileIndex |-> [p \in DOMAIN fi \cup {filePath} |->
                            IF p = filePath THEN rootNode ELSE fi[p]],
           nodeIndex |-> indexNode(ni, rootNode)]

\* indexFile(filePath) run with this.parsers = ps on the maps fi, ni: what it
\* leaves in the maps and whether it throws.  Reading is the step that fails: the parser accepts any
\* text, and both steps sit in the one try block whose catch rethrows.
indexFile(filePath, ps, fi, ni) ==
  IF ps = Null
  THEN [threw |-> TRUE, fileIndex |-> fi, nodeIndex |-> ni]
  ELSE IF extname(filePath) \notin ps[1]
  THEN [threw |-> FALSE, fileIndex |-> fi, nodeIndex |-> ni]
  ELSE IF disk[filePath].kind # "text"
  THEN [threw |-> TRUE, fileIndex |-> fi, nodeIndex |-> ni]
  ELSE LET fileContent == ContentList[disk[filePath].content]
           rootNode == convertToCodeNode(parse(fileContent), filePath)
       IN [threw |-> FALSE,
           fileIndex |-> [p \in DOMAIN fi \cup {filePath} |->
                            IF p = filePath THEN rootNode ELSE fi[p]],
           nodeIndex |-> indexNode(ni, rootNode)]

\* updateFile(filePath): evict the nodes of the root on record, then index.
\* indexFile has no await inside, so nothing runs between the two halves.
updateFile(path, psNow, fiNow, niNow) ==
  LET oldRootNode == IF path \in DOMAIN fiNow THEN Some(fiNow[path]) ELSE Null
      evicted == IF oldRootNode # Null
                 THEN removeNodeFromIndex(niNow, oldRootNode[1])
                 ELSE niNow
  IN indexFile(path, psNow, fiNow, evicted)

----------------------------------------------------------------------------
(* CodeIndexer.calculateScore, calculateSpecialTypeScore and search.       *)
(* A score is a JavaScript number; here it is counted in eighths, the      *)
(* finest fraction the factors 1.5, 0.5 and 0.75 produce, so that every    *)
(* score is an integer: Eighths(n) is the number n.                        *)

Eighths(n) == 8 * n

\* node.name?.toLowerCase() || ""
nameLower(node) == IF node.name = Null THEN <<>> ELSE toLowerCase(node.name[1])

\* if (node.name) ... matchingTerms.some(term => name.toLowerCase().includes(term))
matchesName(node, terms) ==
  /\ node.name # Null
  /\ node.name[1] # <<>>
  /\ \E i \in 1..Len(terms) : includes(toLowerCase(node.name[1]), terms[i])

\* a score whose length boost stops short of thirty lines
calculateScore_Below30(node, matchingTerms) ==
  LET s0 == Eighths(Len(matchingTerms))
      s1 == IF node.type \in {"function_declaration", "method_definition", "class_declaration"}
            THEN s0 * 2 ELSE s0
      lines == node.endLine - node.startLine + 1
      s2 == IF lines < 30 /\ lines >= 3 THEN (s1 * 3) \div 2 ELSE s1
  IN IF matchesName(node, matchingTerms) THEN s2 * 3 ELSE s2

\* a score whose name boost is 2 instead of 3
calculateScore_NameDouble(node, matchingTerms) ==
  LET s0 == Eighths(Len(matchingTerms))
      s1 == IF node.type \in {"function_declaration", "method_definition", "class_declaration"}
            THEN s0 * 2 ELSE s0
      lines == node.endLine - node.startLine + 1
      s2 == IF lines <= 30 /\ lines >= 3 THEN (s1 * 3) \div 2 ELSE s1
  IN IF matchesName(node, matchingTerms) THEN s2 * 2 ELSE s2

calculateScore(node, matchingTerms) ==
  LET s0 == Eighths(Len(matchingTerms))
      s1 == IF node.type \in {"function_declaration", "method_definition", "class_declaration"}
            THEN s0 * 2 ELSE s0
      lines == node.endLine - node.startLine + 1
      s2 == IF lines <= 30 /\ lines >= 3 THEN (s1 * 3) \div 2 ELSE s1
  IN IF matchesName(node, matchingTerms) THEN s2 * 3 ELSE s2

calculateSpecialTypeScore(node, queryTerms) ==
  LET nodeText == toLowerCase(node.text)
      matchingTerms == SelectSeq(queryTerms, LAMBDA term : includes(nodeText, term))
      s0 == Eighths(1) + Len(matchingTerms) * 4
      s1 == IF matchesName(node, queryTerms) THEN s0 * 2 ELSE s0
      propertyMatches ==
        Cardinality({i \in 1..Len(node.children) :
                       /\ node.children[i].type = "property_signature"
                       /\ matchesName(node.children[i], queryTerms)})
  IN s1 + propertyMatches * 6

QueryResult(node, score, matches) == [node |-> node, score |-> score, matches |-> matches]

\* a descending sort that puts the later of two equal scores first
sortByScore_TiesReversed(results) ==
  LET n == Len(results)
      rank(i) == Cardinality({j \in 1..n : results[j].score > results[i].score})
                 + Cardinality({j \in (i + 1)..n : results[j].score = results[i].score}) + 1
  IN [k \in 1..n |-> results[CHOOSE i \in 1..n : rank(i) = k]]

\* results.sort((a, b) => b.score - a.score): descending, and stable
sortByScore(results) ==
  LET n == Len(results)
      rank(i) == Cardinality({j \in 1..n : results[j].score > results[i].score})
                 + Cardinality({j \in 1..(i - 1) : results[j].score = results[i].score}) + 1
  IN [k \in 1..n |-> results[CHOOSE i \in 1..n : rank(i) = k]]

\* the results a pass pushes, given for each node <<>> or its one result
RECURSIVE Collect(_, _)
Collect(hits, i) ==
  IF i > Len(hits) THEN <<>> ELSE hits[i] \o Collect(hits, i + 1)

\* a first pass that reports the whole-query match with the plain score
exactMatch_NotDoubled(node, searchQueryLower, queryTerms) ==
  IF \/ includes(toLowerCase(node.text), searchQueryLower)
     \/ includes(toLowerCase(TypeChars(node.type)), searchQueryLower)
     \/ includes(nameLower(node), searchQueryLower)
  THEN LET score == calculateScore(node, queryTerms)
       IN IF score > 0 THEN <<QueryResult(node, score, <<searchQueryLower>>)>> ELSE <<>>
  ELSE <<>>

\* first pass of search: the whole query in the text, the type or the name
exactMatch(node, searchQueryLower, queryTerms) ==
  IF \/ includes(toLowerCase(node.text), searchQueryLower)
     \/ includes(toLowerCase(TypeChars(node.type)), searchQueryLower)
     \/ includes(nameLower(node), searchQueryLower)
  THEN LET score == calculateScore(node, queryTerms)
       IN IF score > 0 THEN <<QueryResult(node, score * 2, <<searchQueryLower>>)>> ELSE <<>>
  ELSE <<>>

\* second pass of search: the terms found in the text, the type or the name
partialMatch(node, queryTerms) ==
  LET matchingTerms ==
        SelectSeq(queryTerms, LAMBDA term :
          \/ includes(toLowerCase(node.text), term)
          \/ includes(toLowerCase(TypeChars(node.type)), term)
          \/ includes(nameLower(node), term))
      score == calculateScore(node, matchingTerms)
  IN IF Len(matchingTerms) > 0 /\ score > 0
     THEN <<QueryResult(node, score, matchingTerms)>> ELSE <<>>

Interface == <<"i", "n", "t", "e", "r", "f", "a", "c", "e">>
Type == <<"t", "y", "p", "e">>

\* third pass of search: interfaces and type aliases
specialMatch(node, queryTerms) ==
  IF node.type \in {"interface_declaration", "type_alias"}
  THEN LET score == calculateSpecialTypeScore(node, queryTerms)
       IN IF score > 0 THEN <<QueryResult(node, (score * 3) \div 2, <<Interface>>)>> ELSE <<>>
  ELSE <<>>

\* search(query) over the node index ni
search(ni, query) ==
  LET searchQueryLower == trim(toLowerCase(query))
      queryTerms == split(searchQueryLower)
      nodes == MapValues(ni)
      first == Collect([i \in 1..Len(nodes) |->
                          exactMatch(nodes[i], searchQueryLower, queryTerms)], 1)
      addedNodes == {first[i].node.id : i \in 1..Len(first)}
      second == Collect([i \in 1..Len(nodes) |->
                           IF nodes[i].id \in addedNodes THEN <<>>
                           ELSE partialMatch(nodes[i], queryTerms)], 1)
      third == IF includes(searchQueryLower, Interface) \/ includes(searchQueryLower, Type)
               THEN Collect([i \in 1..Len(nodes) |->
                               IF nodes[i].id \in addedNodes THEN <<>>
                               ELSE specialMatch(nodes[i], queryTerms)], 1)
               ELSE <<>>
  IN sortByScore(first \o second \o third)

\* The single-pass search of the earlier CodeIndexer.
MinTextLength == 10

singlePassMatch(node, queryTerms) ==
  IF Len(node.text) < MinTextLength THEN <<>>
  ELSE LET nodeText == toLowerCase(node.text)
           matchingTerms == SelectSeq(queryTerms, LAMBDA term : includes(nodeText, term))
           score == calculateScore(node, matchingTerms)
       IN IF Len(matchingTerms) > 0 /\ score > 0
          THEN <<QueryResult(node, score, matchingTerms)>> ELSE <<>>

searchSinglePass(ni, query) ==
  LET queryTerms == split(toLowerCase(query))
      nodes == MapValues(ni)
  IN sortByScore(Collect([i \in 1..Len(nodes) |-> singlePassMatch(nodes[i], queryTerms)], 1))

----------------------------------------------------------------------------
(* CodeIndexer.getNodeAtPosition, getNodeText, getNodePosition.  Each      *)
(* yields what it returns and whether it throws.                           *)

Outcome(threw, value) == [threw |-> threw, value |-> value]

RECURSIVE findNodeAtPosition(_, _, _)
RECURSIVE findInChildren(_, _, _, _)
\* a containment test that leaves the end position out of the range
findNodeAtPosition_EndExclusive(node, line, column) ==
  IF \/ line < node.startLine
     \/ (line = node.startLine /\ column < node.startCol)
     \/ line > node.endLine
     \/ (line = node.endLine /\ column >= node.endCol)
  THEN Null
  ELSE LET childResult == findInChildren(node.children, line, column, 1)
       IN IF childResult # Null THEN childResult ELSE Some(node)

findNodeAtPosition(node, line, column) ==
  IF \/ line < node.startLine
     \/ (line = node.startLine /\ column < node.startCol)
     \/ line > node.endLine
     \/ (line = node.endLine /\ column > node.endCol)
  THEN Null
  ELSE LET childResult == findInChildren(node.children, line, column, 1)
       IN IF childResult # Null THEN childResult ELSE Some(node)
\* a loop over node.children that never descends
findInChildren_Skipped(nodes, line, column, i) == Null

\* the for loop over node.children, from child i on: the first hit, or null
findInChildren(nodes, line, column, i) ==
  IF i > Len(nodes) THEN Null
  ELSE LET childResult == findNodeAtPosition(nodes[i], line, column)
       IN IF childResult # Null THEN childResult
          ELSE findInChildren(nodes, line, column, i + 1)

getNodeAtPosition(fi, filePath, line, column) ==
  IF filePath \notin DOMAIN fi THEN Outcome(FALSE, Null)
  ELSE Outcome(FALSE, findNodeAtPosition(fi[filePath], line, column))

\* a lookup that reads the text without asking whether the node is there
getNodeText_Unchecked(ni, nodeId) ==
  LET node == MapGet(ni, nodeId)
  IN IF node # Null THEN Outcome(FALSE, Some(node[1].text)) ELSE Outcome(TRUE, Null)

getNodeText(ni, nodeId) ==
  LET node == MapGet(ni, nodeId)
  IN IF node # Null THEN Outcome(FALSE, Some(node[1].text)) ELSE Outcome(FALSE, Null)

getNodePosition(ni, nodeId) ==
  LET node == MapGet(ni, nodeId)
  IN IF node = Null THEN Outcome(FALSE, Null)
     ELSE Outcome(FALSE, Some([filePath |-> node[1].filePath,
                               startLine |-> node[1].startLine,
                               startCol |-> node[1].startCol,
                               endLine |-> node[1].endLine,
                               endCol |-> node[1].endCol]))

----------------------------------------------------------------------------
(* The state machine.  One CodeIndexer is created and initialized once, as *)
(* activate() does; indexFile runs only inside initialize and updateFile,  *)
(* its only callers.  Files change on disk at any time.                    *)

Ret(op, arg, threw, value) == [op |-> op, arg |-> arg, threw |-> threw, value |-> value]

Idle == [pc |-> "idle", files |-> <<>>, pos |-> 0, threw |-> FALSE]

Init ==
  /\ disk \in [Files -> DiskStates]
  /\ parsers = Null
  /\ fileIndex = [p \in {} |-> Null]
  /\ nodeIndex = <<>>
  /\ run = Idle
  /\ ret = Ret("new", <<>>, FALSE, Null)

\* The environment: an editor or any other program changes a file.
WriteFile(f, d) ==
  /\ disk[f] # d
  /\ disk' = [disk EXCEPT ![f] = d]
  /\ UNCHANGED <<parsers, fileIndex, nodeIndex, run, ret>>

\* getAllFiles(folders): the supported files found, in directory order
getAllFiles == SelectSeq(FileOrder, LAMBDA p : disk[p].kind # "missing")

\* initialize(), up to its first await: list the files, ask for the parsers.
InitializeStart ==
  /\ run.pc = "idle"
  /\ run' = [pc |-> "load", files |-> getAllFiles, pos |-> 0, threw |-> FALSE]
  /\ ret' = Ret("initialize", <<>>, FALSE, Null)
  /\ UNCHANGED <<disk, parsers, fileIndex, nodeIndex>>

\* The for loop of initialize from the file at position pos on, with
\* this.parsers = ps: it calls indexFile and suspends on its promise, or it
\* falls off the end and initialize returns.
InitializeLoopFrom(pos, ps) ==
  IF pos > Len(run.files)
  THEN /\ run' = [run EXCEPT !.pc = "done", !.pos = pos, !.threw = FALSE]
       /\ ret' = Ret("initialize", <<"returned">>, FALSE, Null)
       /\ UNCHANGED <<fileIndex, nodeIndex>>
  ELSE LET r == indexFile(run.files[pos], ps, fileIndex, nodeIndex)
       IN /\ run' = [run EXCEPT !.pc = "index", !.pos = pos, !.threw = r.threw]
          /\ fileIndex' = r.fileIndex
          /\ nodeIndex' = r.nodeIndex
          /\ ret' = Ret("initialize", <<"indexFile", run.files[pos]>>, FALSE, Null)

\* initialize() resumes with the outcome of loadRequiredLanguageParsers: one
\* parser per extension of the listed files, or the rejection of a language
\* that could not be loaded, which initialize rethrows.
InitializeLoaded(loaded) ==
  /\ run.pc = "load"
  /\ IF loaded
     THEN /\ parsers' = Some({extname(run.files[i]) : i \in 1..Len(run.files)})
          /\ InitializeLoopFrom(1, parsers')
     ELSE /\ run' = [run EXCEPT !.pc = "failed"]
          /\ ret' = Ret("initialize", <<"returned">>, TRUE, Null)
          /\ UNCHANGED <<parsers, fileIndex, nodeIndex>>
  /\ UNCHANGED disk

\* initialize() resumes with the outcome of indexFile(files[pos]): the catch
\* block rethrows a failure, otherwise the loop goes on.
InitializeIndexed ==
  /\ run.pc = "index"
  /\ IF run.threw
     THEN /\ run' = [run EXCEPT !.pc = "failed"]
          /\ ret' = Ret("initialize", <<"returned">>, TRUE, Null)
          /\ UNCHANGED <<fileIndex, nodeIndex>>
     ELSE InitializeLoopFrom(run.pos + 1, parsers)
  /\ UNCHANGED <<disk, parsers>>

\* A call of updateFile(filePath): the save listener, the commands.  Its
\* record keeps the ids of the old root it evicted, if the file had one.
UpdateFile(f) ==
  LET r == updateFile(f, parsers, fileIndex, nodeIndex)
  IN /\ fileIndex' = r.fileIndex
     /\ nodeIndex' = r.nodeIndex
     /\ ret' = Ret("updateFile", <<f>>, r.threw,
                   IF f \in DOMAIN fileIndex THEN Some(IdsOf(fileIndex[f])) ELSE Null)
     /\ UNCHANGED <<disk, parsers, run>>

Next ==
  \/ \E f \in Files, d \in DiskStates : WriteFile(f, d)
  \/ InitializeStart
  \/ \E loaded \in BOOLEAN : InitializeLoaded(loaded)
  \/ InitializeIndexed
  \/ \E f \in Files : UpdateFile(f)

Spec == Init /\ [][Next]_vars

----------------------------------------------------------------------------
(* The queries, asked of an indexer whose workspace holds the one file     *)
(* a.ts; b.tsx is the file that is never there and never indexed.          *)

OneFile == "a.ts"

InitOne == Init /\ disk["b.tsx"].kind = "missing"

\* positions and ids the queries are asked about
MaxLine == 4
ProbeColumns == {0, 9, 13, 36, 40}
ProbeIds == {NodeId(f, l, c) : f \in Files, l \in {0, 3}, c \in {0, 9, 13}}

GetNodeAtPosition(f, line, column) ==
  LET r == getNodeAtPosition(fileIndex, f, line, column)
  IN /\ ret' = Ret("getNodeAtPosition", <<f, line, column>>, r.threw, r.value)
     /\ UNCHANGED <<disk, parsers, fileIndex, nodeIndex, run>>

GetNodeText(id) ==
  LET r == getNodeText(nodeIndex, id)
  IN /\ ret' = Ret("getNodeText", <<id>>, r.threw, r.value)
     /\ UNCHANGED <<disk, parsers, fileIndex, nodeIndex, run>>

GetNodePosition(id) ==
  LET r == getNodePosition(nodeIndex, id)
  IN /\ ret' = Ret("getNodePosition", <<id>>, r.threw, r.value)
     /\ UNCHANGED <<disk, parsers, fileIndex, nodeIndex, run>>

NextOne ==
  \/ \E d \in DiskStates : WriteFile(OneFile, d)
  \/ InitializeStart
  \/ \E loaded \in BOOLEAN : InitializeLoaded(loaded)
  \/ InitializeIndexed
  \/ UpdateFile(OneFile)

NextQuery ==
  \/ NextOne
  \/ \E f \in Files, line \in 0..MaxLine, column \in ProbeColumns :
       GetNodeAtPosition(f, line, column)
  \/ \E id \in ProbeIds : GetNodeText(id)
  \/ \E id \in ProbeIds : GetNodePosition(id)

SpecQuery == InitOne /\ [][NextQuery]_vars

----------------------------------------------------------------------------
(* The search, asked of an indexer whose workspace holds the one file      *)
(* a.ts, which may also hold the text that opens with a comment.           *)

SearchContents == 1..NumSearchContents
SearchDiskStates ==
  {[kind |-> "missing", content |-> 0], [kind |-> "denied", content |-> 0]}
    \cup {[kind |-> "text", content |-> k] : k \in SearchContents}

InitSearch ==
  /\ disk \in [Files -> SearchDiskStates]
  /\ disk["b.tsx"].kind = "missing"
  /\ parsers = Null
  /\ fileIndex = [p \in {} |-> Null]
  /\ nodeIndex = <<>>
  /\ run = Idle
  /\ ret = Ret("new", <<>>, FALSE, Null)

\* the queries asked
QAdd == <<"a", "d", "d">>
QSubtract == <<"s", "u", "b", "t", "r", "a", "c", "t">>
QReturnA == <<"r", "e", "t", "u", "r", "n", " ", "a">>
QPadded == <<" ", "A", "d", "d", " ", " ", "b", " ">>
QEmpty == <<>>
QBlank == <<" ", " ">>
Queries == {QAdd, QSubtract, QReturnA, QPadded, Type, QEmpty, QBlank}

\* search(query) of src/codeIndexer.ts
Search(q) ==
  /\ ret' = Ret("search", <<q>>, FALSE, search(nodeIndex, q))
  /\ UNCHANGED <<disk, parsers, fileIndex, nodeIndex, run>>

\* search(query) of the earlier CodeIndexer
SearchSinglePass(q) ==
  /\ ret' = Ret("searchSinglePass", <<q>>, FALSE, searchSinglePass(nodeIndex, q))
  /\ UNCHANGED <<disk, parsers, fileIndex, nodeIndex, run>>

\* the lines asked about at column 3: in the text that opens with a comment,
\* line 0 is the comment and line 1 the function
CommentProbeLines == {0, 1}

NextSearch ==
  \/ \E d \in SearchDiskStates : WriteFile(OneFile, d)
  \/ InitializeStart
  \/ \E loaded \in BOOLEAN : InitializeLoaded(loaded)
  \/ InitializeIndexed
  \/ UpdateFile(OneFile)
  \/ \E q \in Queries : Search(q)
  \/ \E q \in Queries : SearchSinglePass(q)
  \/ \E line \in CommentProbeLines : GetNodeAtPosition(OneFile, line, 3)

SpecSearch == InitSearch /\ [][NextSearch]_vars

----------------------------------------------------------------------------
(* The second pass of search on one node: the per-term match and its       *)
(* score, applied to nodes and term lists drawn from small sets.           *)

MaxSpan == 31   \* the longest node drawn, in lines

ScoreTypes == {"function_declaration", "method_definition", "class_declaration",
               "lexical_declaration", "identifier"}
ScoreNames == {Null, Some(QAdd), Some(<<"A", "d", "d", "e", "r">>), Some(<<"s", "u", "m">>)}
ScoreTexts == {SrcAdd, <<"s", "u", "m", " ", "=", " ", "a", "d", "d", "e", "r">>}
ScoreTerms == {<<QAdd>>, <<QAdd, <<"r", "e", "t", "u", "r", "n">>>>, <<<<"s", "u", "m">>, QAdd>>,
               <<QSubtract>>, <<<<"i", "d", "e", "n", "t">>>>, <<<<>>>>}

\* a CodeNode of the given kind, name, text and span
ScoreNode(type, name, text, lines) ==
  [id |-> NodeId(OneFile, 0, 0), type |-> type, name |-> name, text |-> text,
   startLine |-> 0, endLine |-> lines - 1, startCol |-> 0, endCol |-> 0,
   filePath |-> OneFile, children |-> <<>>]

InitScore ==
  /\ disk = [f \in Files |-> [kind |-> "missing", content |-> 0]]
  /\ parsers = Null
  /\ fileIndex = [p \in {} |-> Null]
  /\ nodeIndex = <<>>
  /\ run = Idle
  /\ \E type \in ScoreTypes, name \in ScoreNames, text \in ScoreTexts,
        lines \in 1..MaxSpan, terms \in ScoreTerms :
       ret = Ret("new", <<ScoreNode(type, name, text, lines), terms>>, FALSE, Null)

\* the body of the second loop of search, for the node and the terms drawn
PartialMatch ==
  /\ ret.op = "new"
  /\ ret' = Ret("partialMatch", ret.arg, FALSE, partialMatch(ret.arg[1], ret.arg[2]))
  /\ UNCHANGED <<disk, parsers, fileIndex, nodeIndex, run>>

NextScore == PartialMatch

SpecScore == InitScore /\ [][NextScore]_vars

----------------------------------------------------------------------------
(* search over an index of two nodes drawn from small sets: how the scores *)
(* of two nodes compare under one query.                                   *)

PairTypes == {"function_declaration", "lexical_declaration", "interface_declaration"}
PairSpans == {1, 3}
\* name and text of the nodes drawn
PairBodies ==
  {[name |-> Some(QAdd), text |-> <<"f", "u", "n", "c", "t", "i", "o", "n", " ", "a", "d", "d", "(", ")", " ", "{", "}">>],
   [name |-> Some(<<"s", "u", "b">>), text |-> <<"f", "u", "n", "c", "t", "i", "o", "n", " ", "s", "u", "b", "(", "x", ")", " ", "{", " ", "r", "e", "t", "u", "r", "n", " ", "x", " ", "}">>],
   [name |-> Some(<<"s", "u", "b">>), text |-> <<"f", "u", "n", "c", "t", "i", "o", "n", " ", "s", "u", "b", "(", ")", " ", "{", " ", "a", "d", "d", " ", "x", " ", "}">>],
   [name |-> Null, text |-> <<"c", "o", "n", "s", "t", " ", "a", "d", "d", " ", "=", " ", "x">>]}
QAddReturnX == <<"a", "d", "d", " ", "r", "e", "t", "u", "r", "n", " ", "x">>
QAddX == <<"a", "d", "d", " ", "x">>
QInterfaceAdd == <<"i", "n", "t", "e", "r", "f", "a", "c", "e", " ", "a", "d", "d">>
PairQueries == {QAdd, QAddX, QAddReturnX, QEmpty, QInterfaceAdd}

\* a CodeNode that starts at the given row
PairNode(type, body, row, lines) ==
  [id |-> NodeId(OneFile, row, 0), type |-> type, name |-> body.name, text |-> body.text,
   startLine |-> row, endLine |-> row + lines - 1, startCol |-> 0, endCol |-> 0,
   filePath |-> OneFile, children |-> <<>>]

InitPair ==
  /\ disk = [f \in Files |-> [kind |-> "missing", content |-> 0]]
  /\ parsers = Null
  /\ fileIndex = [p \in {} |-> Null]
  /\ nodeIndex = <<>>
  /\ run = Idle
  /\ \E type \in PairTypes, b1, b2 \in PairBodies, l1, l2 \in PairSpans, q \in PairQueries :
       ret = Ret("new", <<PairNode(type, b1, 0, l1), PairNode(type, b2, 40, l2), q>>,
                 FALSE, Null)

\* search(query) over the index that holds the two nodes drawn
SearchPair ==
  /\ ret.op = "new"
  /\ ret' = Ret("searchPair", ret.arg, FALSE,
                search(indexNode(indexNode(<<>>, ret.arg[1]), ret.arg[2]), ret.arg[3]))
  /\ UNCHANGED <<disk, parsers, fileIndex, nodeIndex, run>>

NextPair == SearchPair

SpecPair == InitPair /\ [][NextPair]_vars

----------------------------------------------------------------------------
(* The definition digest of one file: parseFile of tree-sitter/index.ts,   *)
(* and the parseFile of the earlier draft, applied to captures drawn from  *)
(* a small set over a file of nine lines.                                  *)

\* formattedOutput += "|----\n"
Separator == <<"|", "-", "-", "-", "-", "\n">>

\* The three characters before ${lines[startLine]} in the template literal,
\* each written as its code point: U+00E2, U+201D, U+201A.
LineMarker == <<"U+00E2", "U+201D", "U+201A">>

\* the one character U+2502 of the draft
LineMarkerDraft == <<"U+2502">>

\* the labels of the captures of the query: the name of a definition, and
\* the whole definition
NameLabel == <<"n", "a", "m", "e", ".", "d", "e", "f", "i", "n", "i", "t", "i", "o", "n", ".", "f", "u", "n", "c", "t", "i", "o", "n">>
DefinitionLabel == <<"d", "e", "f", "i", "n", "i", "t", "i", "o", "n", ".", "f", "u", "n", "c", "t", "i", "o", "n">>
CaptureLabels == {NameLabel, DefinitionLabel}

\* fileContent.split("\n"): three definitions in rows 0 to 2, five blank
\* lines, a definition in row 8
DigestLines ==
  <<<<"a", "(", ")">>, <<"b", "(", ")">>, <<"c", "(", ")">>, <<>>, <<>>, <<>>, <<>>, <<>>, <<"d", "(", ")">>>>

\* rows at which a capture starts, and how many rows past its start it ends
CaptureRows == {0, 1, 2, 8}
CaptureSpans == {0, 1}
MaxCaptures == 3

\* { node, name } of query.captures
Capture(startRow, endRow, name) ==
  [node |-> [startPosition |-> [row |-> startRow], endPosition |-> [row |-> endRow]],
   name |-> name]

Captures == {Capture(r, r + s, l) : r \in CaptureRows, s \in CaptureSpans, l \in CaptureLabels}

\* a sort that leaves the captures as the query returned them
sortCaptures_Unsorted(captures) == captures

\* captures.sort((a, b) => a.node.startPosition.row - b.node.startPosition.row)
sortCaptures(captures) ==
  LET n == Len(captures)
      row(i) == captures[i].node.startPosition.row
      rank(i) == Cardinality({j \in 1..n : row(j) < row(i)})
                 + Cardinality({j \in 1..(i - 1) : row(j) = row(i)}) + 1
  IN [k \in 1..n |-> captures[CHOOSE i \in 1..n : rank(i) = k]]

\* lines[startLine] is a string that is not empty
HasLine(lines, startLine) ==
  startLine + 1 \in 1..Len(lines) /\ lines[startLine + 1] # <<>>

RECURSIVE formatCaptures(_, _, _, _)
\* a loop that puts the separator before every capture that does not start
\* in the row where the last one ended
formatCaptures_NoAdjacentRow(captures, lines, i, lastLine) ==
  IF i > Len(captures) THEN <<>>
  ELSE LET startLine == captures[i].node.startPosition.row
       IN IF ~includes(captures[i].name, <<"n", "a", "m", "e">>)
          THEN formatCaptures(captures, lines, i + 1, lastLine)
          ELSE (IF lastLine # -1 /\ startLine > lastLine THEN Separator ELSE <<>>)
               \o (IF HasLine(lines, startLine)
                   THEN LineMarker \o lines[startLine + 1] \o <<"\n">>
                        \o formatCaptures(captures, lines, i + 1,
                                          captures[i].node.endPosition.row)
                   ELSE formatCaptures(captures, lines, i + 1, lastLine))

\* the for loop of parseFile from capture i on, lastLine as it stands
formatCaptures(captures, lines, i, lastLine) ==
  IF i > Len(captures) THEN <<>>
  ELSE LET startLine == captures[i].node.startPosition.row
       IN IF ~includes(captures[i].name, <<"n", "a", "m", "e">>)
          THEN formatCaptures(captures, lines, i + 1, lastLine)
          ELSE (IF lastLine # -1 /\ startLine > lastLine + 1 THEN Separator ELSE <<>>)
               \o (IF HasLine(lines, startLine)
                   THEN LineMarker \o lines[startLine + 1] \o <<"\n">>
                        \o formatCaptures(captures, lines, i + 1,
                                          captures[i].node.endPosition.row)
                   ELSE formatCaptures(captures, lines, i + 1, lastLine))

\* parseFile, from the parser found for the extension and the captures the
\* query yields on the tree; hasParser is languageParsers[ext] being there
parseFile(hasParser, captures, lines) ==
  IF ~hasParser THEN Null
  ELSE IF Len(captures) = 0 THEN Null
  ELSE LET formattedOutput == formatCaptures(sortCaptures(captures), lines, 1, -1)
       IN IF Len(formattedOutput) > 0
          THEN Some(Separator \o formattedOutput \o Separator)
          ELSE Null

\* the forEach of the draft parseFile from capture i on
RECURSIVE formatCapturesDraft(_, _, _, _)
formatCapturesDraft(captures, lines, i, lastLine) ==
  IF i > Len(captures) THEN <<>>
  ELSE LET startLine == captures[i].node.startPosition.row
           endLine == captures[i].node.endPosition.row
       IN (IF lastLine # -1 /\ startLine > lastLine + 1 THEN Separator ELSE <<>>)
          \o (IF includes(captures[i].name, <<"n", "a", "m", "e">>) /\ HasLine(lines, startLine)
              THEN LineMarkerDraft \o lines[startLine + 1] \o <<"\n">>
              ELSE <<>>)
          \o formatCapturesDraft(captures, lines, i + 1, endLine)

\* the draft parseFile; filePath is what "Unsupported file type" reports
parseFileDraft(hasParser, filePath, captures, lines) ==
  IF ~hasParser THEN Some(<<"U", "n", "s", "u", "p", "p", "o", "r", "t", "e", "d", " ", "f", "i", "l", "e", " ", "t", "y", "p", "e", ":", " ">> \o filePath)
  ELSE LET formattedOutput == formatCapturesDraft(sortCaptures(captures), lines, 1, -1)
       IN IF Len(formattedOutput) > 0
          THEN Some(Separator \o formattedOutput \o Separator)
          ELSE Null

DigestPath == <<"a", ".", "t", "s">>

RECURSIVE CaptureLists(_)
CaptureLists(n) ==
  IF n = 0 THEN {<<>>}
  ELSE LET shorter == CaptureLists(n - 1)
       IN shorter \cup {Append(cs, c) : cs \in {s \in shorter : Len(s) = n - 1}, c \in Captures}

InitDigest ==
  /\ disk = [f \in Files |-> [kind |-> "missing", content |-> 0]]
  /\ parsers = Null
  /\ fileIndex = [p \in {} |-> Null]
  /\ nodeIndex = <<>>
  /\ run = Idle
  /\ \E captures \in CaptureLists(MaxCaptures), hasParser \in BOOLEAN :
       /\ hasParser \/ captures = <<>>
       /\ ret = Ret("new", <<hasParser, captures>>, FALSE, Null)

ParseFile ==
  /\ ret.op = "new"
  /\ ret' = Ret("parseFile", ret.arg, FALSE, parseFile(ret.arg[1], ret.arg[2], DigestLines))
  /\ UNCHANGED <<disk, parsers, fileIndex, nodeIndex, run>>

ParseFileDraft ==
  /\ ret.op = "new"
  /\ ret' = Ret("parseFileDraft", ret.arg, FALSE,
                parseFileDraft(ret.arg[1], DigestPath, ret.arg[2], DigestLines))
  /\ UNCHANGED <<disk, parsers, fileIndex, nodeIndex, run>>

NextDigest ==
  \/ ParseFile
  \/ ParseFileDraft

SpecDigest == InitDigest /\ [][NextDigest]_vars

----------------------------------------------------------------------------
(* The definition digest of a directory: parseSourceCodeForDefinitions-    *)
(* TopLevel of tree-sitter/index.ts over a listing of up to three files,   *)
(* with the languages that fail to load drawn as well.                     *)

SUPPORTED_EXTENSIONS == { <<"j", "s">>, <<"j", "s", "x">>, <<"t", "s">>, <<"t", "s", "x">>, <<"g", "o">> }

\* the extensions LANGUAGE_CONFIG has an entry for
LANGUAGE_CONFIG == { <<"j", "s">>, <<"j", "s", "x">>, <<"t", "s">>, <<"t", "s", "x">>, <<"g", "o">> }

NoDirectory ==
  <<"T", "h", "i", "s", " ", "d", "i", "r", "e", "c", "t", "o", "r", "y", " ", "d", "o", "e", "s", " ", "n", "o", "t", " ", "e", "x", "i", "s", "t", " ", "o", "r", " ", "y", "o", "u", " ", "d", "o", " ", "n", "o", "t", " ", "h", "a", "v", "e", " ", "p", "e", "r", "m", "i", "s", "s", "i", "o", "n", " ", "t", "o", " ", "a", "c", "c", "e", "s", "s", " ", "i", "t", ".">>
NoFiles == <<"N", "o", " ", "f", "i", "l", "e", "s", " ", "f", "o", "u", "n", "d", " ", "i", "n", " ", "d", "i", "r", "e", "c", "t", "o", "r", "y", ".">>
NoSupportedFiles == <<"N", "o", " ", "s", "u", "p", "p", "o", "r", "t", "e", "d", " ", "s", "o", "u", "r", "c", "e", " ", "c", "o", "d", "e", " ", "f", "i", "l", "e", "s", " ", "f", "o", "u", "n", "d", ".">>
NoDefinitions == <<"N", "o", " ", "s", "o", "u", "r", "c", "e", " ", "c", "o", "d", "e", " ", "d", "e", "f", "i", "n", "i", "t", "i", "o", "n", "s", " ", "f", "o", "u", "n", "d", ".">>
ErrorDuringParsing == <<"E", "r", "r", "o", "r", " ", "d", "u", "r", "i", "n", "g", " ", "p", "a", "r", "s", "i", "n", "g", ":", " ">>
NoParsersLoaded == <<"N", "o", " ", "l", "a", "n", "g", "u", "a", "g", "e", " ", "p", "a", "r", "s", "e", "r", "s", " ", "c", "o", "u", "l", "d", " ", "b", "e", " ", "l", "o", "a", "d", "e", "d">>

\* path.extname(file).toLowerCase().slice(1)
extnameLower(file) ==
  LET dots == {i \in 2..Len(file) : file[i] = "."}
  IN IF dots = {} THEN <<>>
     ELSE toLowerCase(SubSeq(file, (CHOOSE i \in dots : \A j \in dots : j <= i) + 1, Len(file)))

\* loadRequiredLanguageParsers of the variant that returns { parsers, metrics }:
\* an extension without configuration is skipped, a language that fails to
\* load is logged and left out, and no parser at all is an error
loadRequiredLanguageParsers(filesToParse, failing) ==
  LET extensionsToLoad == {extnameLower(filesToParse[i].path) : i \in 1..Len(filesToParse)}
      parsersLoaded == {ext \in extensionsToLoad \cap LANGUAGE_CONFIG : ext \notin failing}
  IN IF parsersLoaded = {} THEN Outcome(TRUE, NoParsersLoaded)
     ELSE Outcome(FALSE, parsersLoaded)

\* validResults.map(...).join("\n") from result i on
RECURSIVE joinResults(_, _)
joinResults(validResults, i) ==
  IF i > Len(validResults) THEN <<>>
  ELSE validResults[i].relativePath \o <<"\n">> \o validResults[i].definitions
       \o (IF i < Len(validResults) THEN <<"\n">> ELSE <<>>)
       \o joinResults(validResults, i + 1)

\* a digest that keeps the files for which parseFile returned null
parseSourceCodeForDefinitionsTopLevel_NullKept(dirExists, allFiles, failing) ==
  IF ~dirExists THEN NoDirectory
  ELSE IF Len(allFiles) = 0 THEN NoFiles
  ELSE LET filesToParse ==
             SelectSeq(allFiles, LAMBDA file : extnameLower(file.path) \in SUPPORTED_EXTENSIONS)
       IN IF Len(filesToParse) = 0 THEN NoSupportedFiles
          ELSE LET loaded == loadRequiredLanguageParsers(filesToParse, failing)
               IN IF loaded.threw THEN ErrorDuringParsing \o loaded.value
                  ELSE LET parseResults ==
                             [i \in 1..Len(filesToParse) |->
                                [relativePath |-> filesToParse[i].path,
                                 definitions |->
                                   parseFile(extnameLower(filesToParse[i].path) \in loaded.value,
                                             filesToParse[i].captures, DigestLines)]]
                           validResults ==
                             [i \in 1..Len(parseResults) |->
                                [relativePath |-> parseResults[i].relativePath,
                                 definitions |-> IF parseResults[i].definitions = Null THEN <<>>
                                                 ELSE parseResults[i].definitions[1]]]
                       IN joinResults(validResults, 1)

\* parseSourceCodeForDefinitionsTopLevel: allFiles is what listFiles returns,
\* each file with the captures the query yields on it; at most three files,
\* so slice(0, 50) keeps them all
parseSourceCodeForDefinitionsTopLevel(dirExists, allFiles, failing) ==
  IF ~dirExists THEN NoDirectory
  ELSE IF Len(allFiles) = 0 THEN NoFiles
  ELSE LET filesToParse ==
             SelectSeq(allFiles, LAMBDA file : extnameLower(file.path) \in SUPPORTED_EXTENSIONS)
       IN IF Len(filesToParse) = 0 THEN NoSupportedFiles
          ELSE LET loaded == loadRequiredLanguageParsers(filesToParse, failing)
               IN IF loaded.threw THEN ErrorDuringParsing \o loaded.value
                  ELSE LET parseResults ==
                             [i \in 1..Len(filesToParse) |->
                                [relativePath |-> filesToParse[i].path,
                                 definitions |->
                                   parseFile(extnameLower(filesToParse[i].path) \in loaded.value,
                                             filesToParse[i].captures, DigestLines)]]
                           found == SelectSeq(parseResults, LAMBDA r : r.definitions # Null)
                           validResults ==
                             [i \in 1..Len(found) |->
                                [relativePath |-> found[i].relativePath,
                                 definitions |-> found[i].definitions[1]]]
                       IN IF Len(validResults) = 0 THEN NoDefinitions
                          ELSE joinResults(validResults, 1)

\* the files a directory may hold, in the order listFiles returns them
DirPaths == <<<<"a", ".", "t", "s">>, <<"b", ".", "G", "O">>, <<"c", ".", "m", "d">>>>

\* the captures of a file of the directory: none, a definition without a
\* name capture, a definition with its name, two names
DirCaptures ==
  {<<>>,
   <<Capture(0, 1, DefinitionLabel)>>,
   <<Capture(0, 1, DefinitionLabel), Capture(0, 0, NameLabel)>>,
   <<Capture(0, 0, NameLabel), Capture(8, 8, NameLabel)>>}

DirFile(path, captures) == [path |-> path, captures |-> captures]

\* the listings: every file is there or not, a supported one with its captures
DirListings ==
  {SelectSeq(<<a, b, c>>, LAMBDA file : file # Null) :
     a \in {Null} \cup {DirFile(DirPaths[1], cs) : cs \in DirCaptures},
     b \in {Null} \cup {DirFile(DirPaths[2], cs) : cs \in DirCaptures},
     c \in {Null, DirFile(DirPaths[3], <<>>)}}

InitDirectory ==
  /\ disk = [f \in Files |-> [kind |-> "missing", content |-> 0]]
  /\ parsers = Null
  /\ fileIndex = [p \in {} |-> Null]
  /\ nodeIndex = <<>>
  /\ run = Idle
  /\ \E dirExists \in BOOLEAN, allFiles \in DirListings, failing \in SUBSET { <<"t", "s">>, <<"g", "o">> } :
       /\ dirExists \/ (allFiles = <<>> /\ failing = {})
       /\ ret = Ret("new", <<dirExists, allFiles, failing>>, FALSE, Null)

ParseSourceCodeForDefinitionsTopLevel ==
  /\ ret.op = "new"
  /\ ret' = Ret("parseSourceCodeForDefinitionsTopLevel", ret.arg, FALSE,
                parseSourceCodeForDefinitionsTopLevel(ret.arg[1], ret.arg[2], ret.arg[3]))
  /\ UNCHANGED <<disk, parsers, fileIndex, nodeIndex, run>>

NextDirectory == ParseSourceCodeForDefinitionsTopLevel

SpecDirectory == InitDirectory /\ [][NextDirectory]_vars

----------------------------------------------------------------------------
(* The calls of updateFile as the event loop runs them.  A call runs from  *)
(* its start, or from the await it resumed from, to its next await; only  *)
(* then does another call, callback or reader run.  updateFile(a.ts) is    *)
(* called by the save timer and by the commands; run.current is the call   *)
(* that holds the thread, 0 when none does.                               *)

NumUpdaters == 2
Updaters == 1..NumUpdaters

\* where a call of updateFile stands: not called, past the lookup of the old
\* root, past removeNodeFromIndex, past the body of indexFile
UpdaterPcs == {"idle", "called", "removed", "awaiting"}

\* the positions with an await between removeNodeFromIndex and indexFile
AwaitPoints_BeforeIndexFile == {"removed", "awaiting"}

\* the positions at which updateFile gives up the thread: the one await, on
\* the promise of indexFile, whose body has no await of its own
AwaitPoints == {"awaiting"}

\* a call goes on when it holds the thread, or starts or resumes when no
\* call does
MayRun(t) == run.current \in {0, t}

\* the thread after the call t moved to the position pc
ThreadAfter(t, pc) == IF pc \in AwaitPoints THEN 0 ELSE t

\* an indexer that initialize has run on, with a.ts as the disk holds it
InitInterleaved ==
  /\ disk \in [Files -> DiskStates]
  /\ disk["b.tsx"].kind = "missing"
  /\ disk[OneFile].kind = "text"
  /\ parsers = Some({extname(OneFile)})
  /\ fileIndex = indexFile(OneFile, parsers, [p \in {} |-> Null], <<>>).fileIndex
  /\ nodeIndex = indexFile(OneFile, parsers, [p \in {} |-> Null], <<>>).nodeIndex
  /\ run = [current |-> 0,
            pc |-> [t \in Updaters |-> "idle"],
            oldRootNode |-> [t \in Updaters |-> Null]]
  /\ ret = Ret("new", <<>>, FALSE, Null)

\* updateFile(a.ts) is called: const oldRootNode = this.fileIndex.get(filePath)
UpdateFileCalled(t) ==
  /\ MayRun(t)
  /\ run.pc[t] = "idle"
  /\ run' = [current |-> ThreadAfter(t, "called"),
             pc |-> [run.pc EXCEPT ![t] = "called"],
             oldRootNode |-> [run.oldRootNode EXCEPT ![t] =
                                IF OneFile \in DOMAIN fileIndex
                                THEN Some(fileIndex[OneFile]) ELSE Null]]
  /\ ret' = Ret("updateFile", <<t, "called">>, FALSE, Null)
  /\ UNCHANGED <<disk, parsers, fileIndex, nodeIndex>>

\* if (oldRootNode) this.removeNodeFromIndex(oldRootNode)
UpdateFileRemoved(t) ==
  /\ MayRun(t)
  /\ run.pc[t] = "called"
  /\ nodeIndex' = IF run.oldRootNode[t] # Null
                  THEN removeNodeFromIndex(nodeIndex, run.oldRootNode[t][1])
                  ELSE nodeIndex
  /\ run' = [run EXCEPT !.current = ThreadAfter(t, "removed"), !.pc[t] = "removed"]
  /\ ret' = Ret("updateFile", <<t, "removed">>, FALSE, Null)
  /\ UNCHANGED <<disk, parsers, fileIndex>>

\* this.indexFile(filePath) runs its body and hands back its promise, on
\* which updateFile awaits
UpdateFileIndexed(t) ==
  /\ MayRun(t)
  /\ run.pc[t] = "removed"
  /\ LET r == indexFile(OneFile, parsers, fileIndex, nodeIndex)
     IN /\ fileIndex' = r.fileIndex
        /\ nodeIndex' = r.nodeIndex
        /\ ret' = Ret("updateFile", <<t, "awaiting">>, r.threw, Null)
  /\ run' = [run EXCEPT !.current = ThreadAfter(t, "awaiting"), !.pc[t] = "awaiting"]
  /\ UNCHANGED <<disk, parsers>>

\* updateFile resumes from its await and returns or rethrows
UpdateFileResumed(t) ==
  /\ MayRun(t)
  /\ run.pc[t] = "awaiting"
  /\ run' = [run EXCEPT !.pc[t] = "idle", !.oldRootNode[t] = Null]
  /\ ret' = Ret("updateFile", <<t, "returned">>, FALSE, Null)
  /\ UNCHANGED <<disk, parsers, fileIndex, nodeIndex>>

\* the calls of updateFile that have evicted the old nodes and not yet run
\* indexFile
Evicting == {t \in Updaters : run.pc[t] = "removed"}

\* A reader runs when no call holds the thread; search has no await and
\* the three lookups are synchronous.  The record keeps what the reader
\* got and the calls of updateFile that were evicting when it ran.
ReadInterleaved(op, arg, value) ==
  /\ run.current = 0
  /\ ret' = Ret(op, arg, FALSE, [got |-> value, evicting |-> Evicting])
  /\ UNCHANGED <<disk, parsers, fileIndex, nodeIndex, run>>

ReaderOps == {"search", "getNodeAtPosition", "getNodeText", "getNodePosition"}

Reads ==
  \/ ReadInterleaved("search", <<QAdd>>, search(nodeIndex, QAdd))
  \/ ReadInterleaved("getNodeAtPosition", <<OneFile, 0, 9>>,
                     getNodeAtPosition(fileIndex, OneFile, 0, 9).value)
  \/ ReadInterleaved("getNodeText", <<NodeId(OneFile, 0, 9)>>,
                     getNodeText(nodeIndex, NodeId(OneFile, 0, 9)).value)
  \/ ReadInterleaved("getNodePosition", <<NodeId(OneFile, 0, 9)>>,
                     getNodePosition(nodeIndex, NodeId(OneFile, 0, 9)).value)

NextInterleaved ==
  \/ \E d \in DiskStates : WriteFile(OneFile, d)
  \/ \E t \in Updaters : UpdateFileCalled(t)
  \/ \E t \in Updaters : UpdateFileRemoved(t)
  \/ \E t \in Updaters : UpdateFileIndexed(t)
  \/ \E t \in Updaters : UpdateFileResumed(t)
  \/ Reads

SpecInterleaved == InitInterleaved /\ [][NextInterleaved]_vars

----------------------------------------------------------------------------
(* convertToCodeNode on one syntax node drawn from small sets: its type,   *)
(* and up to MaxChildren children with their types and fields.             *)

MaxChildren == 2

DrawnTypes == NamedTypes \cup {"lexical_declaration", "type_alias_declaration"}
DrawnChildTypes == {"identifier", "type_identifier", "property_identifier"}
DrawnFields == {"", "name"}

\* the text of the child at position i of its parent
DrawnText == <<<<"x">>, <<"y">>, <<"z">>>>

\* a syntax node without children of its own
DrawnLeaf(type, field, i) ==
  [type |-> type, field |-> field, text |-> DrawnText[i],
   startPosition |-> [row |-> 0, column |-> i],
   endPosition |-> [row |-> 0, column |-> i + 1],
   children |-> <<>>]

DrawnLeaves(i) == {DrawnLeaf(t, f, i) : t \in DrawnChildTypes, f \in DrawnFields}

RECURSIVE DrawnChildren(_)
DrawnChildren(n) ==
  IF n = 0 THEN {<<>>}
  ELSE LET shorter == DrawnChildren(n - 1)
       IN shorter \cup {Append(cs, c) : cs \in {s \in shorter : Len(s) = n - 1},
                                        c \in DrawnLeaves(n)}

DrawnNode(type, children) ==
  [type |-> type, field |-> "", text |-> <<"x", "y", "z">>,
   startPosition |-> [row |-> 0, column |-> 0],
   endPosition |-> [row |-> 0, column |-> 4],
   children |-> children]

InitName ==
  /\ disk = [f \in Files |-> [kind |-> "missing", content |-> 0]]
  /\ parsers = Null
  /\ fileIndex = [p \in {} |-> Null]
  /\ nodeIndex = <<>>
  /\ run = Idle
  /\ \E type \in DrawnTypes, children \in DrawnChildren(MaxChildren) :
       ret = Ret("new", <<DrawnNode(type, children)>>, FALSE, Null)

ConvertToCodeNode ==
  /\ ret.op = "new"
  /\ ret' = Ret("convertToCodeNode", ret.arg, FALSE, convertToCodeNode(ret.arg[1], OneFile))
  /\ UNCHANGED <<disk, parsers, fileIndex, nodeIndex, run>>

NextName == ConvertToCodeNode

SpecName == InitName /\ [][NextName]_vars

----------------------------------------------------------------------------
(* The save listener of the extension.  Every save of a supported file     *)
(* clears the one timer of the module and sets it anew for the saved file; *)
(* the timer's callback calls updateFile on the file it was set for.       *)
(* run.documentChangeTimeout is the file the pending timer was set for,    *)
(* Null when no timer is pending; run.saved are the files saved since      *)
(* updateFile was last invoked on them.                                    *)

\* a saved document the listener's test on the extension turns away
UnsupportedSaved == "notes.md"

\* the index after initialize() on a workspace with both files
IndexedBoth ==
  LET first == indexFile("a.ts", Some({"ts", "tsx"}), [p \in {} |-> Null], <<>>)
  IN indexFile("b.tsx", Some({"ts", "tsx"}), first.fileIndex, first.nodeIndex)

InitSave ==
  /\ disk \in [Files -> {d \in DiskStates : d.kind = "text"}]
  /\ parsers = Some({"ts", "tsx"})
  /\ fileIndex = IndexedBoth.fileIndex
  /\ nodeIndex = IndexedBoth.nodeIndex
  /\ run = [documentChangeTimeout |-> Null, saved |-> {}]
  /\ ret = Ret("new", <<>>, FALSE, Null)

\* onDidSaveTextDocument for a supported file: the editor wrote the text,
\* the listener clears the pending timer and sets one for this file
SaveDocument(f, d) ==
  /\ d.kind = "text"
  /\ disk' = [disk EXCEPT ![f] = d]
  /\ run' = [documentChangeTimeout |-> Some(f), saved |-> run.saved \cup {f}]
  /\ ret' = Ret("save", <<f>>, FALSE, Null)
  /\ UNCHANGED <<parsers, fileIndex, nodeIndex>>

\* onDidSaveTextDocument for any other file: the listener returns at once
SaveUnsupported ==
  /\ ret' = Ret("save", <<UnsupportedSaved>>, FALSE, Null)
  /\ UNCHANGED <<disk, parsers, fileIndex, nodeIndex, run>>

\* the timer runs out: its callback awaits updateFile(filePath) and catches
\* what it throws
TimeoutFires ==
  /\ run.documentChangeTimeout # Null
  /\ LET f == run.documentChangeTimeout[1]
         r == updateFile(f, parsers, fileIndex, nodeIndex)
     IN /\ fileIndex' = r.fileIndex
        /\ nodeIndex' = r.nodeIndex
        /\ run' = [documentChangeTimeout |-> Null, saved |-> run.saved \ {f}]
        /\ ret' = Ret("updateFile", <<f>>, r.threw, Null)
  /\ UNCHANGED <<disk, parsers>>

NextSave ==
  \/ \E f \in Files, d \in DiskStates : SaveDocument(f, d)
  \/ SaveUnsupported
  \/ TimeoutFires

\* the step of TimeoutFires as the timer sees it: the pending timer is gone
\* and its callback has run; no other step of NextSave ends a pending timer
TimeoutRunsOut ==
  /\ run.documentChangeTimeout # Null
  /\ run' = [documentChangeTimeout |-> Null,
             saved |-> run.saved \ {run.documentChangeTimeout[1]}]

\* setTimeout: a timer that was set and is not cleared runs out
SpecSave == InitSave /\ [][NextSave]_vars /\ WF_run(TimeoutRunsOut)

----------------------------------------------------------------------------
(* initializeParser of the language loader, as the event loop runs its     *)
(* calls.  loadRequiredLanguageParsers awaits it first; initialize() of    *)
(* the indexer and parseSourceCodeForDefinitionsTopLevel both call the     *)
(* loader.  A call runs to its await of Parser.init and resumes when that  *)
(* promise settles.  run.isParserInitialized is the module's flag,         *)
(* run.inits counts the invocations of Parser.init.                        *)

NumLoaders == 3
Loaders == 1..NumLoaders
MaxInits == 3

InitLoader ==
  /\ disk = [f \in Files |-> [kind |-> "missing"]]
  /\ parsers = Null
  /\ fileIndex = [p \in {} |-> Null]
  /\ nodeIndex = <<>>
  /\ run = [isParserInitialized |-> FALSE,
            pc |-> [c \in Loaders |-> "idle"],
            inits |-> 0]
  /\ ret = Ret("new", <<>>, FALSE, Null)

\* initializeParser() is called: it returns at once when the flag is set,
\* otherwise it invokes Parser.init and awaits the promise
InitializeParserCalled(c) ==
  /\ run.pc[c] \in {"idle", "returned", "threw"}
  /\ IF run.isParserInitialized
     THEN /\ run' = [run EXCEPT !.pc[c] = "returned"]
          /\ ret' = Ret("initializeParser", <<c>>, FALSE, Some(FALSE))
     ELSE /\ run.inits < MaxInits
          /\ run' = [run EXCEPT !.pc[c] = "awaiting", !.inits = @ + 1]
          /\ ret' = Ret("initializeParser", <<c>>, FALSE, Some(TRUE))
  /\ UNCHANGED <<disk, parsers, fileIndex, nodeIndex>>

\* the promise of Parser.init settles and the call resumes: it sets the
\* flag and returns, or logs and rethrows
ParserInitSettled(c, resolved) ==
  /\ run.pc[c] = "awaiting"
  /\ IF resolved
     THEN run' = [run EXCEPT !.pc[c] = "returned", !.isParserInitialized = TRUE]
     ELSE run' = [run EXCEPT !.pc[c] = "threw"]
  /\ ret' = Ret("Parser.init", <<c>>, ~resolved, Null)
  /\ UNCHANGED <<disk, parsers, fileIndex, nodeIndex>>

NextLoader ==
  \/ \E c \in Loaders : InitializeParserCalled(c)
  \/ \E c \in Loaders, resolved \in BOOLEAN : ParserInitSettled(c, resolved)

SpecLoader == InitLoader /\ [][NextLoader]_vars

----------------------------------------------------------------------------
(* loadRequiredLanguageParsers of the variant that returns                 *)
(* { parsers, metrics }, with what it awaits: initializeParser first, then *)
(* one load per extension, each in its own try block.  A language may fail *)
(* to load and a query may fail to compile; Parser.init may fail.          *)

\* LANGUAGE_CONFIG[ext].wasmName
wasmName(ext) ==
  CASE ext \in { <<"j", "s">>, <<"j", "s", "x">> } -> "javascript"
    [] ext \in { <<"t", "s">>, <<"t", "s", "x">> } -> "typescript"
    [] ext = <<"g", "o">> -> "go"

\* LANGUAGE_CONFIG[ext].queryFn()
queryFn(ext) ==
  CASE ext \in { <<"j", "s">>, <<"j", "s", "x">> } -> "javascriptQuery"
    [] ext \in { <<"t", "s">>, <<"t", "s", "x">> } -> "typescriptQuery"
    [] ext = <<"g", "o">> -> "goQuery"

\* what rejects when Parser.init fails
ParserInitError == <<"P", "a", "r", "s", "e", "r", ".", "i", "n", "i", "t">>

\* the load of one extension with the entry written before the query is
\* compiled
loadPromise_ParserBeforeQuery(ext, failingLoad, failingQuery) ==
  IF ext \in failingLoad THEN Null
  ELSE IF ext \in failingQuery THEN Some([parser |-> wasmName(ext)])
  ELSE Some([parser |-> wasmName(ext), query |-> queryFn(ext)])

\* the load of one extension: the entry parsers[ext] it writes, none when
\* loadLanguage or language.query throws inside its try block
loadPromise(ext, failingLoad, failingQuery) ==
  IF ext \in failingLoad \/ ext \in failingQuery THEN Null
  ELSE Some([parser |-> wasmName(ext), query |-> queryFn(ext)])

\* the whole call: the paths given, whether Parser.init rejects, the
\* extensions whose language or query fails
loadRequiredLanguageParsersWithMetrics(filesToParse, initFails, failingLoad, failingQuery) ==
  IF initFails THEN Outcome(TRUE, ParserInitError)
  ELSE LET extensionsToLoad == {extnameLower(filesToParse[i]) : i \in 1..Len(filesToParse)}
           written == {ext \in extensionsToLoad \cap LANGUAGE_CONFIG :
                         loadPromise(ext, failingLoad, failingQuery) # Null}
           loaded == [ext \in written |-> loadPromise(ext, failingLoad, failingQuery)[1]]
       IN IF written = {} THEN Outcome(TRUE, NoParsersLoaded)
          ELSE Outcome(FALSE, [parsers |-> loaded, languageLoadTimes |-> written])

\* the paths a call may be given: two of one extension, one in capitals,
\* one without configuration
MetricsPaths ==
  <<<<"a", ".", "t", "s">>, <<"d", ".", "t", "s">>, <<"b", ".", "G", "O">>, <<"c", ".", "m", "d">>>>

MetricsLists ==
  {SelectSeq(MetricsPaths, LAMBDA p : p \in chosen) : chosen \in SUBSET {MetricsPaths[i] : i \in 1..Len(MetricsPaths)}}

MetricsFailing == SUBSET { <<"t", "s">>, <<"g", "o">> }

InitMetrics ==
  /\ disk = [f \in Files |-> [kind |-> "missing"]]
  /\ parsers = Null
  /\ fileIndex = [p \in {} |-> Null]
  /\ nodeIndex = <<>>
  /\ run = Idle
  /\ \E filesToParse \in MetricsLists, initFails \in BOOLEAN,
        failingLoad \in MetricsFailing, failingQuery \in MetricsFailing :
       ret = Ret("new", <<filesToParse, initFails, failingLoad, failingQuery>>, FALSE, Null)

LoadRequiredLanguageParsers ==
  /\ ret.op = "new"
  /\ ret' = Ret("loadRequiredLanguageParsers", ret.arg, FALSE,
                loadRequiredLanguageParsersWithMetrics(ret.arg[1], ret.arg[2],
                                                       ret.arg[3], ret.arg[4]))
  /\ UNCHANGED <<disk, parsers, fileIndex, nodeIndex, run>>

NextMetrics == LoadRequiredLanguageParsers

SpecMetrics == InitMetrics /\ [][NextMetrics]_vars

----------------------------------------------------------------------------
(* The command aiCodeEditor.searchAndModify of the extension, as the event *)
(* loop runs it beside the save listener.  The command awaits the user     *)
(* three times and the LLM once; at each await the file may be saved and   *)
(* updateFile may run.  run.selected is the node of the result the user    *)
(* picked, run.code the text handed to the LLM, run.position the range     *)
(* that editor.edit replaces.  The edit changes the document in the        *)
(* editor, which is not saved by the command.                              *)

\* results.slice(0, 10): the results shown to the user
QuickPickLimit == 10

CommandQueries == {QAdd, QReturnA}

CommandAt(pc, selected, code, position) ==
  [pc |-> pc, selected |-> selected, code |-> code, position |-> position]

\* an indexer that initialize has run on, with a.ts as the disk holds it
InitCommand ==
  /\ disk \in [Files -> DiskStates]
  /\ disk["b.tsx"].kind = "missing"
  /\ disk[OneFile].kind = "text"
  /\ parsers = Some({extname(OneFile)})
  /\ fileIndex = indexFile(OneFile, parsers, [p \in {} |-> Null], <<>>).fileIndex
  /\ nodeIndex = indexFile(OneFile, parsers, [p \in {} |-> Null], <<>>).nodeIndex
  /\ run = CommandAt("idle", Null, Null, Null)
  /\ ret = Ret("new", <<>>, FALSE, Null)

\* the command from the query the user typed to the result picked: search,
\* the first ten results as quick pick items, the user's choice
SearchAndSelect(query, i) ==
  /\ run.pc = "idle"
  /\ LET results == search(nodeIndex, query)
     IN /\ i \in 1..Len(results)
        /\ i <= QuickPickLimit
        /\ run' = CommandAt("selected", Some(results[i].node), Null, Null)
        /\ ret' = Ret("search", <<query>>, FALSE, Null)
  /\ UNCHANGED <<disk, parsers, fileIndex, nodeIndex>>

\* the user typed the instruction: indexer.getNodeText(selected.node.id); no
\* text ends the command, otherwise the text goes to the LLM
CommandGetNodeText ==
  /\ run.pc = "selected"
  /\ LET r == getNodeText(nodeIndex, run.selected[1].id)
     IN /\ run' = IF r.value = Null THEN CommandAt("idle", Null, Null, Null)
                  ELSE CommandAt("transforming", run.selected, r.value, Null)
        /\ ret' = Ret("getNodeText", <<run.selected[1].id>>, r.threw, r.value)
  /\ UNCHANGED <<disk, parsers, fileIndex, nodeIndex>>

\* the LLM answered: indexer.getNodePosition(selected.node.id); no position
\* is an error shown, otherwise the range is replaced in the editor
CommandGetNodePosition ==
  /\ run.pc = "transforming"
  /\ LET r == getNodePosition(nodeIndex, run.selected[1].id)
     IN /\ run' = IF r.value = Null THEN CommandAt("idle", Null, Null, Null)
                  ELSE CommandAt("edited", run.selected, run.code, r.value)
        /\ ret' = Ret("getNodePosition", <<run.selected[1].id>>, r.threw, r.value)
  /\ UNCHANGED <<disk, parsers, fileIndex, nodeIndex>>

\* the edit was applied: await indexer.updateFile(position.filePath), whose
\* failure the command shows and swallows
CommandUpdateFile ==
  /\ run.pc = "edited"
  /\ LET f == run.position[1].filePath
         r == updateFile(f, parsers, fileIndex, nodeIndex)
     IN /\ fileIndex' = r.fileIndex
        /\ nodeIndex' = r.nodeIndex
        /\ ret' = Ret("updateFile", <<f>>, r.threw, Null)
  /\ run' = CommandAt("idle", Null, Null, Null)
  /\ UNCHANGED <<disk, parsers>>

NextCommand ==
  \/ \E d \in DiskStates : WriteFile(OneFile, d)
  \/ UpdateFile(OneFile)
  \/ \E query \in CommandQueries, i \in 1..QuickPickLimit : SearchAndSelect(query, i)
  \/ CommandGetNodeText
  \/ CommandGetNodePosition
  \/ CommandUpdateFile

SpecCommand == InitCommand /\ [][NextCommand]_vars

----------------------------------------------------------------------------
(* Properties of the index.                                                *)

\* the keys of the node index that belong to file f
FileIds(ni, f) == {k \in MapKeys(ni) : k[1] = f}

\* the ids of all nodes reachable from the roots in FileIndex
ReachableIds == UNION {IdsOf(fileIndex[f]) : f \in DOMAIN fileIndex}

\* the tree indexFile materialises for a source text
TreeOf(src, f) == convertToCodeNode(parse(src), f)

\* C1: after any sequence of initialize/indexFile/updateFile calls, failing
\* ones included, the keys of NodeIndex are exactly the ids of the nodes
\* reachable from the roots in FileIndex: no orphan key, no missing id.
C1_KeysAreReachableIds == MapKeys(nodeIndex) = ReachableIds

\* C2: a successful updateFile(F) of an indexed file F that materialises a new
\* tree leaves no id of the old tree that the new tree lacks, leaves every id
\* of the new tree in NodeIndex, and, when NodeIndex held exactly the ids of
\* the old tree for F (as it does after indexFile(F)), leaves exactly the ids
\* of the new tree for F.
C2_UpdateReplacesIds ==
  [][\A f \in Files :
       (/\ ret' = Ret("updateFile", <<f>>, FALSE, ret'.value)
        /\ f \in DOMAIN fileIndex
        /\ parsers # Null
        /\ extname(f) \in parsers[1]
        /\ UpdateFile(f))
       => LET old == IdsOf(fileIndex[f])
              new == IdsOf(fileIndex'[f])
          IN /\ \A id \in old \ new : ~MapHas(nodeIndex', id)
             /\ \A id \in new : MapHas(nodeIndex', id)
             /\ FileIds(nodeIndex, f) = old => FileIds(nodeIndex', f) = new]_vars

\* C2 witness: updateFile has replaced the one-function tree of a file by the
\* two-function tree, and NodeIndex holds exactly the ids of the new tree.
C2_Witness ==
  \E f \in Files :
    /\ ret.op = "updateFile"
    /\ ret.arg = <<f>>
    /\ ~ret.threw
    /\ ret.value = Some(IdsOf(TreeOf(SrcAdd, f)))
    /\ f \in DOMAIN fileIndex
    /\ fileIndex[f] = TreeOf(SrcTwo, f)
    /\ FileIds(nodeIndex, f) = IdsOf(fileIndex[f])
    /\ IdsOf(TreeOf(SrcAdd, f)) \ IdsOf(fileIndex[f]) # {}

\* C3: when updateFile(F) of an indexed file F fails to read or parse F, F is
\* absent afterwards: no root in FileIndex (getNodeAtPosition yields null at
\* every position) and no id of F in NodeIndex.
C3_FailedUpdateLeavesFileAbsent ==
  \A f \in Files :
    (ret.op = "updateFile" /\ ret.arg = <<f>> /\ ret.threw /\ ret.value # Null)
    => /\ f \notin DOMAIN fileIndex
       /\ \A line \in 0..MaxLine, column \in ProbeColumns :
            getNodeAtPosition(fileIndex, f, line, column).value = Null
       /\ FileIds(nodeIndex, f) = {}

\* C4: when the bulk run of initialize is over, every file of the run whose
\* indexing succeeds has a root in FileIndex, wherever a failing file stands
\* in the list.
C4_FailureIsLocal ==
  (run.pc \in {"done", "failed"} /\ parsers # Null)
  => \A i \in 1..Len(run.files) :
       (extname(run.files[i]) \in parsers[1] /\ disk[run.files[i]].kind = "text")
       => run.files[i] \in DOMAIN fileIndex

\* C5: no two distinct nodes of a materialised tree have the same id, and
\* once initialize has indexed a file every node of its tree is the value
\* NodeIndex holds under the id of the node.
C5_IdsUniqueInTree ==
  \A f \in DOMAIN fileIndex :
    /\ \A n, m \in NodesOf(fileIndex[f]) : n.id = m.id => n = m
    /\ ret = Ret("initialize", <<"indexFile", f>>, FALSE, Null)
       => \A n \in NodesOf(fileIndex[f]) : MapGet(nodeIndex, n.id) = Some(n)

\* C7: removing an indexed file (the eviction of updateFile, seen alone when
\* the re-indexing after it fails) deletes every id of the tree of F from
\* NodeIndex and the entry of F from FileIndex; a second removal in a row
\* changes neither map.
C7_RemovalDeletesFileEntry ==
  [][\A f \in Files :
       (/\ ret' = Ret("updateFile", <<f>>, TRUE, ret'.value)
        /\ f \in DOMAIN fileIndex
        /\ UpdateFile(f))
       => /\ IdsOf(fileIndex[f]) \cap MapKeys(nodeIndex') = {}
          /\ f \notin DOMAIN fileIndex'
          /\ (ret.op = "updateFile" /\ ret.arg = <<f>> /\ ret.threw)
             => (fileIndex' = fileIndex /\ nodeIndex' = nodeIndex)]_vars

\* C8: queries against missing index state return null and do not throw:
\* getNodeAtPosition on a file without a root, getNodeText and
\* getNodePosition on an id that is not, or no longer, a key of NodeIndex.
C8_MissingStateYieldsNull ==
  /\ (ret.op = "getNodeAtPosition" /\ ret.arg[1] \notin DOMAIN fileIndex)
     => (~ret.threw /\ ret.value = Null)
  /\ (ret.op \in {"getNodeText", "getNodePosition"} /\ ~MapHas(nodeIndex, ret.arg[1]))
     => (~ret.threw /\ ret.value = Null)

\* C8 witness: getNodeText was asked for an id that a failed updateFile
\* evicted (the stale root still carries it) and returned null.
C8_Witness ==
  /\ ret.op = "getNodeText"
  /\ ~ret.threw
  /\ ret.value = Null
  /\ \E f \in DOMAIN fileIndex : ret.arg[1] \in IdsOf(fileIndex[f])

\* the index after the one file a.ts with the given text has been indexed
IndexHoldsOnly(src) ==
  /\ DOMAIN fileIndex = {OneFile}
  /\ fileIndex[OneFile] = TreeOf(src, OneFile)
  /\ nodeIndex = indexNode(<<>>, fileIndex[OneFile])

\* C6: with an index that holds the one file `function add(a, b) { return a
\* + b; }`, search("add") returns exactly one result, whose node is the
\* function declaration and whose score is positive, and search("subtract")
\* returns the empty list.
C6_SearchFindsTheFunction ==
  (ret.op \in {"search", "searchSinglePass"} /\ IndexHoldsOnly(SrcAdd))
  => /\ (ret.arg = <<QAdd>>)
        => (/\ Len(ret.value) = 1
            /\ ret.value[1].node.type = "function_declaration"
            /\ ret.value[1].score > 0)
     /\ (ret.arg = <<QSubtract>>) => (ret.value = <<>>)

\* the elements of a sequence
Range(s) == {s[i] : i \in 1..Len(s)}

\* C9: every result of search(q) has a non-empty list of matched terms, each
\* of them one of the whitespace-separated lowercase terms of q and a
\* substring of the lowercased text of the node (for the three-pass search
\* also of its kind or its name).
C9_MatchedTermsAreQueryTerms ==
  ret.op \in {"search", "searchSinglePass"}
  => \A i \in 1..Len(ret.value) :
       LET r == ret.value[i]
       IN /\ r.matches # <<>>
          /\ \A m \in Range(r.matches) :
               /\ m \in Range(split(toLowerCase(ret.arg[1])))
               /\ \/ includes(toLowerCase(r.node.text), m)
                  \/ /\ ret.op = "search"
                     /\ \/ includes(toLowerCase(TypeChars(r.node.type)), m)
                        \/ includes(nameLower(r.node), m)

\* C10: the score of a per-term result is the number of matched terms, times
\* 2 for a function, method or class definition, times 1.5 for a node of 3
\* to 30 lines, times 3 when a matched term is in the lowercased name, and
\* nothing else.
C10_ScoreIsProductOfBoosts ==
  (ret.op = "partialMatch" /\ ret.value # <<>>)
  => LET r == ret.value[1]
         lines == r.node.endLine - r.node.startLine + 1
         kind == IF r.node.type \in {"function_declaration", "method_definition",
                                     "class_declaration"} THEN 2 ELSE 1
         span2 == IF 3 <= lines /\ lines <= 30 THEN 3 ELSE 2
         named == IF /\ r.node.name # Null
                     /\ \E m \in Range(r.matches) : includes(toLowerCase(r.node.name[1]), m)
                  THEN 3 ELSE 1
     IN 2 * r.score = Eighths(Len(r.matches)) * kind * span2 * named

\* C10 witness: a function declaration of exactly thirty lines named add,
\* matched by the one term add, scores 1 * 2 * 1.5 * 3 = 9.
C10_Witness ==
  /\ ret.op = "partialMatch"
  /\ ret.value # <<>>
  /\ ret.value[1].node.type = "function_declaration"
  /\ ret.value[1].node.endLine - ret.value[1].node.startLine + 1 = 30
  /\ ret.value[1].node.name = Some(QAdd)
  /\ ret.value[1].matches = <<QAdd>>
  /\ ret.value[1].score = Eighths(9)

\* C11: search never returns a node whose text is shorter than 10
\* characters, whichever pass matched it.
C11_NoShortNodeReturned ==
  ret.op \in {"search", "searchSinglePass"}
  => \A i \in 1..Len(ret.value) : Len(ret.value[i].node.text) >= MinTextLength

\* C12: the terms of search(q) are never empty: no result is matched through
\* the empty string, and a query that is empty or all white space yields no
\* result.
C12_NoEmptyTerm ==
  ret.op \in {"search", "searchSinglePass"}
  => /\ \A i \in 1..Len(ret.value) : <<>> \notin Range(ret.value[i].matches)
     /\ (trim(ret.arg[1]) = <<>>) => (ret.value = <<>>)

\* where the node with this id stands in the iteration order of NodeIndex
PositionInIndex(id) == CHOOSE k \in 1..Len(nodeIndex) : nodeIndex[k].key = id

\* C13: the list search returns is in non-increasing order of score, and
\* two results of equal score stand in the order in which the scan of
\* NodeIndex met their nodes.
C13_SortedAndStable ==
  ret.op \in {"search", "searchSinglePass"}
  => \A i, j \in 1..Len(ret.value) :
       i < j => /\ ret.value[i].score >= ret.value[j].score
                /\ ret.value[i].score = ret.value[j].score
                   => PositionInIndex(ret.value[i].node.id)
                        < PositionInIndex(ret.value[j].node.id)

\* C13 witness: a search returned a higher score ahead of two equal lower
\* scores.
C13_Witness ==
  /\ ret.op = "search"
  /\ Len(ret.value) >= 3
  /\ ret.value[1].score > ret.value[2].score
  /\ ret.value[2].score = ret.value[3].score

\* the results of the pair search for the first and the second node drawn

\* the name of the node holds one of the terms of the query
NameMatched(node, q) ==
  /\ node.name # Null
  /\ node.name[1] # <<>>
  /\ \E t \in Range(split(trim(toLowerCase(q)))) : includes(toLowerCase(node.name[1]), t)

\* the whole query is in the text, the kind or the name of the node
WholeQueryIn(node, q) ==
  LET whole == trim(toLowerCase(q))
  IN \/ includes(toLowerCase(node.text), whole)
     \/ includes(toLowerCase(TypeChars(node.type)), whole)
     \/ includes(nameLower(node), whole)

\* two results of one search, of nodes of the same kind and line count, the
\* first with a name that a query term matches and the second without
NamedAndUnnamed(a, b) ==
  /\ a.node.type = b.node.type
  /\ a.node.endLine - a.node.startLine = b.node.endLine - b.node.startLine
  /\ NameMatched(a.node, ret.arg[3])
  /\ ~NameMatched(b.node, ret.arg[3])

ScoresGiven(node) ==
  LET rs == SelectSeq(ret.value, LAMBDA r : r.node.id = node.id)
  IN [i \in 1..Len(rs) |-> rs[i].score]

\* the scores that per-term matching gives to the node: none or one
PerTermScores(node, q) ==
  LET pt == partialMatch(node, split(trim(toLowerCase(q))))
  IN [i \in 1..Len(pt) |-> pt[i].score]

\* the third pass of search looks at the node under this query
ThirdPassLooksAt(node, q) ==
  /\ node.type \in {"interface_declaration", "type_alias"}
  /\ \/ includes(trim(toLowerCase(q)), Interface)
     \/ includes(trim(toLowerCase(q)), Type)

OutsideRange(node, row, col) ==
  \/ row < node.startLine
  \/ (row = node.startLine /\ col < node.startCol)
  \/ row > node.endLine
  \/ (row = node.endLine /\ col > node.endCol)

\* C16: getNodeAtPosition(F, row, col) returns null exactly when F has no root
\* in FileIndex or (row, col) is outside the range of the root, the start and
\* the end position of the range being inside; otherwise it returns a node.
C16_NullExactlyOutsideRoot ==
  ret.op = "getNodeAtPosition"
  => /\ ~ret.threw
     /\ (ret.value = Null)
        <=> \/ ret.arg[1] \notin DOMAIN fileIndex
            \/ OutsideRange(fileIndex[ret.arg[1]], ret.arg[2], ret.arg[3])

\* C16 witness: the position asked for is the end position of the root, and
\* a node came back.
C16_Witness ==
  /\ ret.op = "getNodeAtPosition"
  /\ ret.arg[1] \in DOMAIN fileIndex
  /\ fileIndex[ret.arg[1]].endLine = ret.arg[2]
  /\ fileIndex[ret.arg[1]].endCol = ret.arg[3]
  /\ ret.value # Null

\* the nodes that NodeIndex holds for the file
IndexedNodesOf(f) == {n \in Range(MapValues(nodeIndex)) : n.filePath = f}

\* C17: a node that getNodeAtPosition(F, row, col) returns contains the
\* position, none of its children contains the position, and it is no
\* ancestor of another indexed node of F that contains the position.
C17_DeepestContainingNode ==
  (ret.op = "getNodeAtPosition" /\ ret.value # Null)
  => /\ ~OutsideRange(ret.value[1], ret.arg[2], ret.arg[3])
     /\ \A i \in 1..Len(ret.value[1].children) :
          OutsideRange(ret.value[1].children[i], ret.arg[2], ret.arg[3])
     /\ \A m \in IndexedNodesOf(ret.arg[1]) :
          (m # ret.value[1] /\ ~OutsideRange(m, ret.arg[2], ret.arg[3]))
          => m \notin NodesOf(ret.value[1])

\* C17 witness: the root spans rows 0 to 3 and holds a function declaration
\* in row 3; asked at row 3, the lookup returned a node inside that
\* declaration and not the root.
C17_Witness ==
  /\ ret.op = "getNodeAtPosition"
  /\ ret.value # Null
  /\ ret.arg[2] = 3
  /\ fileIndex[ret.arg[1]].startLine = 0
  /\ fileIndex[ret.arg[1]].endLine = 3
  /\ ret.value[1] # fileIndex[ret.arg[1]]
  /\ \E i \in 1..Len(fileIndex[ret.arg[1]].children) :
       /\ fileIndex[ret.arg[1]].children[i].type = "function_declaration"
       /\ fileIndex[ret.arg[1]].children[i].startLine = 3
       /\ ret.value[1] \in NodesOf(fileIndex[ret.arg[1]].children[i])
       /\ ret.value[1] # fileIndex[ret.arg[1]].children[i]

\* the lines of a text that ends every line with a line feed
RECURSIVE OutputLines(_)
OutputLines(text) ==
  IF text = <<>> THEN <<>>
  ELSE LET n == CHOOSE i \in 1..Len(text) :
                  text[i] = "\n" /\ \A j \in 1..(i - 1) : text[j] # "\n"
       IN <<SubSeq(text, 1, n - 1)>> \o OutputLines(SubSeq(text, n + 1, Len(text)))

SeparatorLine == SubSeq(Separator, 1, Len(Separator) - 1)

\* the lines of a digest between its opening and its closing separator
DigestBody(digest) ==
  LET ls == OutputLines(digest) IN SubSeq(ls, 2, Len(ls) - 1)

\* where the rendered lines are in the body, in order
RenderedAt(body) ==
  LET at == {i \in 1..Len(body) : body[i] # SeparatorLine}
  IN [k \in 1..Cardinality(at) |->
        CHOOSE i \in at : Cardinality({j \in at : j < i}) = k - 1]

\* the captures whose label contains "name", in the order of the sorted list
NameCaptures(captures) ==
  SelectSeq(sortCaptures(captures), LAMBDA c : includes(c.name, <<"n", "a", "m", "e">>))

\* C18: in the digest of a file there is a separator line between two
\* consecutively rendered captures exactly when the start row of the later
\* exceeds the end row of the earlier by more than one, and there is no other
\* separator line in the body: a capture that is not rendered causes none and
\* does not change the end row compared against.
C18_SeparatorExactlyAtGaps ==
  (ret.op = "parseFile" /\ ret.value # Null)
  => LET body == DigestBody(ret.value[1])
         at == RenderedAt(body)
         ns == NameCaptures(ret.arg[2])
     IN /\ Len(at) = Len(ns)
        /\ at[1] = 1
        /\ at[Len(at)] = Len(body)
        /\ \A i \in 1..(Len(ns) - 1) :
             at[i + 1] - at[i] - 1
               = IF ns[i + 1].node.startPosition.row > ns[i].node.endPosition.row + 1
                 THEN 1 ELSE 0

\* C18 witness: the definitions in rows 2 and 8 have five blank lines between
\* them; with their names and the whole definition of row 2 captured, the body
\* of the digest is the line of row 2, one separator, the line of row 8.
C18_Witness ==
  /\ ret.op = "parseFile"
  /\ ret.arg[2] = <<Capture(2, 3, DefinitionLabel), Capture(2, 2, NameLabel),
                    Capture(8, 8, NameLabel)>>
  /\ ret.value # Null
  /\ DigestBody(ret.value[1])
       = <<LineMarker \o DigestLines[3], SeparatorLine, LineMarker \o DigestLines[9]>>

\* the rendered lines of the body, without the marker in front of them
RenderedLines(body, marker) ==
  LET at == RenderedAt(body)
  IN [k \in 1..Len(at) |-> SubSeq(body[at[k]], Len(marker) + 1, Len(body[at[k]]))]

\* the row of the file that holds the line; the lines that are not empty
\* differ from each other
RowOfLine(line) == CHOOSE r \in 0..(Len(DigestLines) - 1) : DigestLines[r + 1] = line

\* the lines rendered by the last call, the draft with its own marker
LinesRendered ==
  IF ret.value = Null THEN <<>>
  ELSE RenderedLines(DigestBody(ret.value[1]),
                     IF ret.op = "parseFile" THEN LineMarker ELSE LineMarkerDraft)

\* C19: the digest of a file renders one source line per capture whose label
\* contains "name", the line of the start row of the capture, and no line for
\* any other capture; the rendered lines are in ascending order of start row.
C19_OneLinePerNameCaptureAscending ==
  (ret.op \in {"parseFile", "parseFileDraft"} /\ ret.arg[1])
  => /\ \A k \in 1..Len(LinesRendered) : LinesRendered[k] \in Range(DigestLines) \ {<<>>}
     /\ \A r \in 0..(Len(DigestLines) - 1) :
          Cardinality({k \in 1..Len(LinesRendered) : LinesRendered[k] = DigestLines[r + 1]
                                                     /\ DigestLines[r + 1] # <<>>})
            = Cardinality({j \in 1..Len(ret.arg[2]) :
                             /\ includes(ret.arg[2][j].name, <<"n", "a", "m", "e">>)
                             /\ ret.arg[2][j].node.startPosition.row = r})
     /\ \A k, l \in 1..Len(LinesRendered) :
          k < l => RowOfLine(LinesRendered[k]) <= RowOfLine(LinesRendered[l])

\* C19 witness: the query returned the name in row 8 before the definition
\* and the name in row 0; the digest renders row 0, then row 8, and nothing
\* for the definition.
C19_Witness ==
  /\ ret.op = "parseFile"
  /\ ret.arg[2] = <<Capture(8, 8, NameLabel), Capture(0, 1, DefinitionLabel),
                    Capture(0, 0, NameLabel)>>
  /\ LinesRendered = <<DigestLines[1], DigestLines[9]>>

\* the languages that the last call could load are those that did not fail
HasParserIn(file, failing) ==
  extnameLower(file.path) \in LANGUAGE_CONFIG \ failing

\* a capture of the file survives the filter on the label, and the file has
\* a parser
ContributesIn(file, failing) ==
  /\ HasParserIn(file, failing)
  /\ \E j \in 1..Len(file.captures) : includes(file.captures[j].name, <<"n", "a", "m", "e">>)

\* the digest of the directory says nothing of the files that do not
\* contribute: their paths are not in it, and it is the digest of the
\* directory without them
SilentAboutTheRest(digest, allFiles, failing) ==
  /\ \A i \in 1..Len(allFiles) :
       ~ContributesIn(allFiles[i], failing) => ~includes(digest, allFiles[i].path)
  /\ digest = parseSourceCodeForDefinitionsTopLevel(
                TRUE, SelectSeq(allFiles, LAMBDA file : ContributesIn(file, failing)), failing)

C21_UpdateFileIsNotObservedHalfDone ==
  /\ ret.op \in ReaderOps => ret.value.evicting = {}
  /\ \A t \in Evicting : \A u \in Updaters \ {t} : run.pc[u] \in {"idle", "awaiting"}
  /\ \A t \in Evicting : run.current = t

\* C21 witness: a search ran between the body of indexFile and the return of
\* a call of updateFile, while a second call was waiting too.
C21_Witness ==
  /\ ret.op = "search"
  /\ ret.value.evicting = {}
  /\ run.pc[1] = "awaiting"
  /\ run.pc[2] = "awaiting"
  /\ Len(ret.value.got) > 0

\* the nodes the last call returned, if it returned nodes
NodesReturned ==
  IF ret.op \in {"search", "searchSinglePass"} THEN {r.node : r \in Range(ret.value)}
  ELSE IF ret.op = "getNodeAtPosition" /\ ret.value # Null THEN {ret.value[1]}
  ELSE {}

\* C22: no tree in FileIndex holds a node of type "comment", no such node is
\* in NodeIndex, and none is returned by search or getNodeAtPosition; a
\* position inside a comment resolves to a node that is no comment.
C22_NoCommentNodeAnywhere ==
  /\ \A f \in DOMAIN fileIndex : \A n \in NodesOf(fileIndex[f]) : n.type # "comment"
  /\ \A n \in Range(MapValues(nodeIndex)) : n.type # "comment"
  /\ \A n \in NodesReturned : n.type # "comment"

\* C22 witness: the file opens with the comment "// sum"; asked for line 0,
\* column 3, inside the comment, getNodeAtPosition returned the program node
\* that encloses it, whose children hold no comment.
C22_Witness ==
  /\ IndexHoldsOnly(SrcDoc)
  /\ ret.op = "getNodeAtPosition"
  /\ ret.arg = <<OneFile, 0, 3>>
  /\ ret.value # Null
  /\ ret.value[1].type = "program"
  /\ Len(parse(SrcDoc).children) = Len(ret.value[1].children) + 1

\* the kinds of node that can have a name
KindsWithName ==
  {"function_declaration", "method_definition", "class_declaration", "variable_declaration",
   "interface_declaration", "type_alias", "property_signature"}

\* the first position of the sequence that satisfies the test, 0 if none does
FirstWhere(seq, Test(_)) ==
  IF \E i \in 1..Len(seq) : Test(seq[i])
  THEN CHOOSE i \in 1..Len(seq) : Test(seq[i]) /\ \A j \in 1..(i - 1) : ~Test(seq[j])
  ELSE 0

----------------------------------------------------------------------------
(* C24: every save of a supported file is followed by a call of updateFile *)
(* on that file, when a pending timer eventually runs out, whatever other  *)
(* files are saved in between.                                             *)
C24_SaveLeadsToUpdateFile ==
  \A f \in Files : (f \in run.saved) ~> (ret.op = "updateFile" /\ ret.arg = <<f>>)

----------------------------------------------------------------------------
----------------------------------------------------------------------------
(* C26: on an initialized indexer, indexFile of a file whose extension has *)
(* no registered parser returns without throwing and leaves fileIndex and  *)
(* nodeIndex as they were; a call of updateFile on such a file that the    *)
(* index never held does not throw either.                                 *)
NoParserFor(f) == parsers # Null /\ extname(f) \notin parsers[1]

C26_NoParserIsSkipped ==
  \A f \in Files :
    NoParserFor(f)
    => /\ LET r == indexFile(f, parsers, fileIndex, nodeIndex)
          IN ~r.threw /\ r.fileIndex = fileIndex /\ r.nodeIndex = nodeIndex
       /\ (ret.op = "updateFile" /\ ret.arg = <<f>>) => ~ret.threw

\* updateFile ran on a file that is on disk but whose extension got no
\* parser at initialize, beside an indexed file
C26_Witness ==
  /\ ret.op = "updateFile"
  /\ NoParserFor(ret.arg[1])
  /\ disk[ret.arg[1]].kind = "text"
  /\ ~ret.threw
  /\ ret.arg[1] \notin DOMAIN fileIndex
  /\ nodeIndex # <<>>

----------------------------------------------------------------------------
(* C27: Parser.init is invoked at most once in the life of the process,    *)
(* however the calls of the loader overlap, and never once the flag        *)
(* isParserInitialized is set.                                             *)
C27_ParserInitInvokedOnce ==
  /\ run.inits <= 1
  /\ (ret.op = "initializeParser" /\ ret.value = Some(TRUE)) => ~run.isParserInitialized

----------------------------------------------------------------------------
(* C28: the loader that returns { parsers, metrics } returns a parser for  *)
(* every requested extension that has a configuration and whose language   *)
(* and query load, whatever fails for the other extensions; each entry has *)
(* a parser and a query; and the call throws "No language parsers could be *)
(* loaded" exactly when no parser was loaded.                              *)

\* the extensions the call was asked for that can be loaded
Loadable(filesToParse, failingLoad, failingQuery) ==
  {ext \in LANGUAGE_CONFIG :
     /\ \E i \in 1..Len(filesToParse) : extnameLower(filesToParse[i]) = ext
     /\ ext \notin failingLoad \cup failingQuery}

\* what the call returns when it does not throw
ReturnsTheLoadable(out, loadable) ==
  /\ DOMAIN out.value.parsers = loadable
  /\ \A ext \in loadable : DOMAIN out.value.parsers[ext] = {"parser", "query"}

ThrowsNoParsersLoaded(out) == out.threw /\ out.value = NoParsersLoaded

\* the claim as stated: Parser.init having failed, no parser was loaded
C28_ThrowsExactlyWhenNothingLoaded ==
  ret.op = "loadRequiredLanguageParsers"
  => LET loadable == Loadable(ret.arg[1], ret.arg[3], ret.arg[4])
         loadedNow == IF ret.arg[2] THEN {} ELSE loadable
     IN /\ ThrowsNoParsersLoaded(ret.value) <=> loadedNow = {}
        /\ ~ret.value.threw => ReturnsTheLoadable(ret.value, loadable)

\* the same for the calls in which Parser.init succeeded; a call in which
\* it failed throws the error of Parser.init
C28_ThrowsExactlyWhenNothingLoadedAfterInit ==
  ret.op = "loadRequiredLanguageParsers"
  => LET loadable == Loadable(ret.arg[1], ret.arg[3], ret.arg[4])
     IN IF ret.arg[2]
        THEN ret.value.threw /\ ret.value.value = ParserInitError
        ELSE /\ ThrowsNoParsersLoaded(ret.value) <=> loadable = {}
             /\ ret.value.threw <=> loadable = {}
             /\ ~ret.value.threw => ReturnsTheLoadable(ret.value, loadable)

\* a call asked for ts, GO and md files, in which the query of ts failed
\* to compile, returned the go parser alone
C28_Witness ==
  /\ ret.op = "loadRequiredLanguageParsers"
  /\ ~ret.arg[2]
  /\ Len(ret.arg[1]) = 4
  /\ ret.arg[3] = {}
  /\ ret.arg[4] = { <<"t", "s">> }
  /\ ~ret.value.threw
  /\ DOMAIN ret.value.value.parsers = { <<"g", "o">> }

----------------------------------------------------------------------------
(* C29: a call of updateFile(F) or of indexFile(F) leaves every other file *)
(* G as it was, whether the call succeeds or fails: G has the same root in *)
(* fileIndex or none as before, and nodeIndex holds the same node, or      *)
(* none, under every id of G.  Stated of the call made in any state the    *)
(* indexer reaches, on either file.                                        *)

\* the ids of file g: the keys of the node index that carry its path and
\* the ids of the tree on record for it
IdsOfFile(g, fi, ni) ==
  FileIds(ni, g) \cup (IF g \in DOMAIN fi THEN IdsOf(fi[g]) ELSE {})

\* what a call on f left, against the maps it was given
LeavesOthers(f, fi, ni, fiAfter, niAfter) ==
  \A g \in Files \ {f} :
    /\ (g \in DOMAIN fiAfter) = (g \in DOMAIN fi)
    /\ g \in DOMAIN fi => fiAfter[g] = fi[g]
    /\ \A id \in IdsOfFile(g, fi, ni) \cup IdsOfFile(g, fiAfter, niAfter) :
         MapGet(niAfter, id) = MapGet(ni, id)

C29_OtherFilesUntouched ==
  \A f \in Files :
    LET updated == updateFile(f, parsers, fileIndex, nodeIndex)
        indexed == indexFile(f, parsers, fileIndex, nodeIndex)
    IN /\ LeavesOthers(f, fileIndex, nodeIndex, updated.fileIndex, updated.nodeIndex)
       /\ LeavesOthers(f, fileIndex, nodeIndex, indexed.fileIndex, indexed.nodeIndex)

\* updateFile has failed on an indexed file that became unreadable, and has
\* evicted its nodes, while the other file was indexed too
C29_Witness ==
  /\ ret.op = "updateFile"
  /\ ret.value # Null
  /\ ret.threw
  /\ disk[ret.arg[1]].kind = "denied"
  /\ \E g \in Files \ {ret.arg[1]} : g \in DOMAIN fileIndex /\ FileIds(nodeIndex, g) # {}
  /\ FileIds(nodeIndex, ret.arg[1]) = {}

----------------------------------------------------------------------------
(* C30: in searchAndModify the text handed to the LLM is the text of the   *)
(* node the user selected and the range replaced is that node's range,     *)
(* whatever updateFile ran between the search and the lookups by id: a     *)
(* lookup yields the selected node's own text or range, or null.           *)
RangeOf(node) ==
  [filePath |-> node.filePath, startLine |-> node.startLine, startCol |-> node.startCol,
   endLine |-> node.endLine, endCol |-> node.endCol]

C30_LookupsYieldTheSelectedNode ==
  /\ run.code # Null => run.code[1] = run.selected[1].text
  /\ run.position # Null => run.position[1] = RangeOf(run.selected[1])

====
